---- MODULE Spec2Model ----
(***************************************************************************)
(* A model of the dashboard scripts of the repository:                     *)
(*   crypto.py                  watchlist + CoinGecko market/historical    *)
(*                              fetches behind st.cache_data               *)
(*   Crypto3.py                 per-symbol CoinMarketCap loop, its         *)
(*                              momentum score, and the session that       *)
(*                              keeps crypto_data between script runs      *)
(*   Crypto_Treasury_Tracker.py price fetch + premium loop                 *)
(*   Crypto2.py                 indicator functions and the momentum tab   *)
(*   Crypto4.py                 momentum score and 24h change of a frame   *)
(* Each script is single-threaded; one Streamlit script run is a sequence  *)
(* of the steps below, driven by pc / c3pc / tpc / m_pc / s_pc / f_pc.     *)
(***************************************************************************)
EXTENDS Integers, Sequences, FiniteSets, TLC

VARIABLES
    app,            \* the script that runs
    \* ---- crypto.py ----
    watchlist,      \* st.session_state.watchlist: a list of coin ids
    currency,       \* st.session_state.currency
    now,            \* wall clock, seconds
    cacheMd,        \* st.cache_data store of get_market_data
    cacheHist,      \* st.cache_data store of get_historical_data
    pc,             \* position of the script run
    market_data,    \* the list get_market_data returned to the main content
    mdCall,         \* what the get_market_data call of this run did
    histCall,       \* what the get_historical_data call of this run did
    messages,       \* st.error / st.warning texts shown in this run
    view,           \* what the main content rendered
    runs,           \* script runs so far
    time_period,    \* the "Time Period" selectbox, in days
    transport,      \* the answers the stub transport holds for the next GETs
    payload,        \* the field the stub provider's first record lacks, if any
    display_data,   \* the rows of the "Current Prices" table
    historical_data,\* what get_historical_data returned to the main content
    uploaded_file,  \* the "Upload XLSX file" widget
    fetch_log,      \* history: the calls that reached the provider, and when
    \* ---- Crypto3.py ----
    c3pc, symbols, max_coins, c3i, crypto_data, invalid_symbols,
    c3gets, c3sleeps, outcome, c3messages,
    quotes,         \* the answers the quote GETs of the loop got
    \* ---- Crypto_Treasury_Tracker.py ----
    tpc, prices, hype_price, tgets, tidx, premiums, shown, tmessages, tfetch,
    \* ---- Crypto2.py: momentum tab and technical analysis functions ----
    m_pc,           \* position in the tab / in the sequence of function calls
    m_hist,         \* historical_data of the tab
    m_messages,     \* st.warning texts of the tab
    price,          \* df['price'], the input series
    args,           \* the windows the functions are called with
    rsi, sma_20, ema_12, ema_26, macd, macd_signal, upper_band, lower_band,
    \* ---- Crypto3.py indicator block and Crypto4.py: the scores of one symbol ----
    s_pc,               \* position in the processing of the symbol
    historical_prices,  \* Crypto3.py: the prices of the historical answer
    frame,              \* Crypto4.py: the frame yf.download returned
    momentum_score,     \* the momentum score of the symbol
    change_24h,         \* Crypto4.py: the '24h Change' of the results row
    \* ---- Crypto3.py: the session, one script run per interaction ----
    f_pc,               \* position of the script run
    f_runs,             \* script runs so far
    f_uploaded,         \* the file uploader: the valid symbols of the file, if any
    f_days,             \* the "Number of days" slider
    update_button,      \* the "Update Data" button: pressed for this run
    session_crypto_data,\* st.session_state['crypto_data']
    f_fetches,          \* calls of get_crypto_data so far
    f_shown             \* the crypto_data the run displays

cryptoVars == <<watchlist, currency, now, cacheMd, cacheHist, pc, market_data,
                mdCall, histCall, messages, view, runs, time_period, transport,
                payload, display_data, historical_data, uploaded_file, fetch_log>>
c3Vars == <<c3pc, symbols, max_coins, c3i, crypto_data, invalid_symbols,
            c3gets, c3sleeps, outcome, c3messages, quotes>>
tVars == <<tpc, prices, hype_price, tgets, tidx, premiums, shown, tmessages, tfetch>>
mVars == <<m_pc, m_hist, m_messages, price, args, rsi, sma_20, ema_12, ema_26, macd,
           macd_signal, upper_band, lower_band>>
sVars == <<s_pc, historical_prices, frame, momentum_score, change_24h>>
fVars == <<f_pc, f_runs, f_uploaded, f_days, update_button, session_crypto_data, f_fetches,
           f_shown>>
vars == <<app, cryptoVars, c3Vars, tVars, mVars, sVars, fVars>>

(***************************************************************************)
(* Bounds of the model.                                                    *)
(***************************************************************************)
ScriptLen == 3      \* failures a stub transport answers in a row, at most
MaxRuns == 2        \* script runs explored in one session of crypto.py
MaxOmitted == 1     \* ids of one request the provider may leave out of its answer
TickStep == 60      \* seconds the clock advances in one Tick
MaxSeries == 4      \* longest price series the functions are called on
MaxWindow == 3      \* largest window the functions are called with
MaxTabLen == 2      \* longest daily series the momentum tab gets
MaxHist == 31       \* longest list of historical prices of Crypto3.py
MaxRows == 2        \* most rows of a frame of Crypto4.py
MaxSessionRuns == 4 \* script runs explored in one session of Crypto3.py
MaxTime == 300      \* the clock stops here

Range(s) == {s[i] : i \in 1..Len(s)}

\* a step of one script leaves the other scripts alone
InCrypto == app = "crypto.py" /\ UNCHANGED <<app, c3Vars, tVars, mVars, sVars, fVars>>
InCMC == app = "Crypto3.py" /\ UNCHANGED <<app, cryptoVars, tVars, mVars, sVars, fVars>>
InTreasury ==
    /\ app = "Crypto_Treasury_Tracker.py"
    /\ UNCHANGED <<app, cryptoVars, c3Vars, mVars, sVars, fVars>>
\* Crypto2.py: its momentum tab, or its technical analysis functions called
\* on their own
InMomentum ==
    /\ app \in {"Crypto2.py", "Crypto2.py functions"}
    /\ UNCHANGED <<app, cryptoVars, c3Vars, tVars, sVars, fVars>>
\* the processing of one symbol: the indicator block of Crypto3.py, or one
\* iteration of the main loop of Crypto4.py
InScores ==
    /\ app \in {"Crypto3.py indicators", "Crypto4.py"}
    /\ UNCHANGED <<app, cryptoVars, c3Vars, tVars, mVars, fVars>>
\* the session of Crypto3.py
InSession ==
    /\ app = "Crypto3.py session"
    /\ UNCHANGED <<app, cryptoVars, c3Vars, tVars, mVars, sVars>>

(***************************************************************************)
(* crypto.py: configuration.                                               *)
(***************************************************************************)
DEFAULT_COINS == <<"bitcoin", "ethereum", "solana", "cardano", "ripple">>
DEFAULT_CURRENCY == "usd"
\* the ids get_coin_list offers in the "Add Cryptocurrency" selectbox
CoinList == Range(DEFAULT_COINS) \cup {"dogecoin"}
currencies == {"usd", "eur"}
TTL_MARKET == 60
TTL_HIST == 300
days_map == {1, 7, 30}
DefaultDays == 7
MarketsUrl == "/coins/markets"
MarketChartUrl == "/coins/{id}/market_chart"

(***************************************************************************)
(* The transport.  An answer is a status (0: no response, the GET raised a *)
(* network-level exception) and whether its body parses as JSON.  A stub   *)
(* transport holds the answers to the next GETs: j good answers, then k    *)
(* times the answer `fail`; once they are used up it answers a good 200.   *)
(***************************************************************************)
GoodAnswer == [status |-> 200, json_ok |-> TRUE]
Exception == [status |-> 0, json_ok |-> FALSE]
RateLimited == [status |-> 429, json_ok |-> TRUE]
ServerError == [status |-> 500, json_ok |-> FALSE]
BadJson == [status |-> 200, json_ok |-> FALSE]
FailAnswers == {Exception, RateLimited, ServerError, BadJson}
\* the provider accepts the connection and never answers
Silent == [status |-> -1, json_ok |-> FALSE]
TransportScript(j, fail, k) ==
    [i \in 1..(j + k) |-> IF i <= j THEN GoodAnswer ELSE fail]
TransportScripts ==
    {TransportScript(j, f, k) : j \in 0..1, f \in FailAnswers, k \in 0..ScriptLen}
        \cup {TransportScript(j, Silent, 1) : j \in 0..1}
\* the answer to the i-th GET from now
Answer(t, i) == IF i <= Len(t) THEN t[i] ELSE GoodAnswer
\* the transport after n GETs
After(t, n) == IF n >= Len(t) THEN <<>> ELSE SubSeq(t, n + 1, Len(t))

\* requests.get raising (ConnectionError, Timeout: RequestException)
GetRaises(resp) == resp.status = 0
\* requests.get(url, params=...) has no timeout argument: it waits for the
\* answer without limit
GetBlocks(resp) == resp = Silent
\* response.raise_for_status(): HTTPError for 4xx and 5xx
RaiseForStatusRaises(resp) == resp.status >= 400 /\ resp.status < 600
\* response.json(): requests.exceptions.JSONDecodeError, a RequestException
JsonRaises(resp) == ~resp.json_ok

\* "order": "market_cap_desc": the provider lists the coins it answers for by
\* market capitalisation, whatever the order of the ids in the request.
McapOrder == <<"bitcoin", "ethereum", "ripple", "solana", "dogecoin", "cardano">>
RECURSIVE FilterSeq(_, _)
FilterSeq(s, keep) ==
    IF s = <<>> THEN <<>>
    ELSE IF Head(s) \in keep THEN <<Head(s)>> \o FilterSeq(Tail(s), keep)
    ELSE FilterSeq(Tail(s), keep)
\* the fields of a /coins/markets item the price table reads; a field of
\* the JSON item holds a number ("num"), holds null, or is absent
NumberFields == {"current_price", "market_cap", "total_volume"}
PercentFields == {"price_change_percentage_1h_in_currency",
                  "price_change_percentage_24h_in_currency",
                  "price_change_percentage_7d_in_currency"}
Complete == [field |-> "none", is |-> "num"]
\* the stub provider's first item is complete, or has one field null or absent
Payloads ==
    {Complete} \cup [field : NumberFields \cup PercentFields, is : {"null", "absent"}]
Coin(id, defect) ==
    [f \in NumberFields \cup PercentFields |-> IF defect.field = f THEN defect.is ELSE "num"]
        @@ [id |-> id]
\* the JSON list /coins/markets answers for ids, leaving out `omitted`
MarketsBody(ids, omitted) ==
    LET answered == FilterSeq(McapOrder, Range(ids) \ omitted)
    IN [i \in 1..Len(answered) |->
           Coin(answered[i], IF i = 1 THEN payload ELSE Complete)]
\* the provider leaves out the last MaxOmitted ids at most, or knows none of them
Omissions(ids) ==
    {{ids[i] : i \in (Len(ids) - n + 1)..Len(ids)} : n \in 0..MaxOmitted} \cup {Range(ids)}

(***************************************************************************)
(* crypto.py: the fetch functions.  Each returns what the call did: the    *)
(* GETs it issued, the value it returned and whether it called st.error.   *)
(***************************************************************************)
MarketsRequest(coin_ids, cur) ==
    [url |-> MarketsUrl, ids |-> coin_ids, vs_currency |-> cur]

RaisedBy(resp) == GetRaises(resp) \/ RaiseForStatusRaises(resp) \/ JsonRaises(resp)

\* a second source, which crypto.py does not have: its endpoint and the N
\* records a stub of it would return for the ids
SecondaryUrl == "secondary/quotes"
SecondaryStub(ids) == [i \in 1..Len(ids) |-> Coin(ids[i], Complete)]
SecondaryRequest(coin_ids, cur) ==
    [url |-> SecondaryUrl, ids |-> coin_ids, vs_currency |-> cur]

\* variant: a 429 is retried, up to 3 attempts
FetchMarketDataRetry(coin_ids, cur, t, omitted) ==
    LET tries == {i \in 1..3 : Answer(t, i) # RateLimited} \cup {3}
        n == CHOOSE i \in tries : \A j \in tries : i <= j
        raised == RaisedBy(Answer(t, n))
    IN [gets |-> [i \in 1..n |-> MarketsRequest(coin_ids, cur)],
        value |-> IF raised THEN <<>> ELSE MarketsBody(coin_ids, omitted),
        err |-> raised]

\* variant: a failed primary fetch falls back to the second source
FetchMarketDataFallback(coin_ids, cur, t, omitted) ==
    LET raised == RaisedBy(Answer(t, 1))
    IN [gets |-> IF raised
                 THEN <<MarketsRequest(coin_ids, cur), SecondaryRequest(coin_ids, cur)>>
                 ELSE <<MarketsRequest(coin_ids, cur)>>,
        value |-> IF raised THEN SecondaryStub(coin_ids) ELSE MarketsBody(coin_ids, omitted),
        err |-> raised]

\* variant: the second source is asked as well, whatever the primary answered
FetchMarketDataEager(coin_ids, cur, t, omitted) ==
    LET raised == RaisedBy(Answer(t, 1))
    IN [gets |-> <<MarketsRequest(coin_ids, cur), SecondaryRequest(coin_ids, cur)>>,
        value |-> IF raised THEN <<>> ELSE MarketsBody(coin_ids, omitted),
        err |-> raised]

\* variant: the except branch returns a one-element list describing the error
FetchMarketDataErrorRecord(coin_ids, cur, t, omitted) ==
    LET raised == RaisedBy(Answer(t, 1))
    IN [gets |-> <<MarketsRequest(coin_ids, cur)>>,
        value |-> IF raised THEN <<Coin("error", Complete)>> ELSE MarketsBody(coin_ids, omitted),
        err |-> raised]

\* variant: the ids are sent in batches of 2
FetchMarketDataBatched(coin_ids, cur, t, omitted) ==
    LET raised == RaisedBy(Answer(t, 1))
        nb == (Len(coin_ids) + 1) \div 2
    IN [gets |-> [b \in 1..nb |->
                    MarketsRequest(SubSeq(coin_ids, 2 * b - 1,
                                          IF 2 * b <= Len(coin_ids) THEN 2 * b ELSE Len(coin_ids)),
                                   cur)],
        value |-> IF raised THEN <<>> ELSE MarketsBody(coin_ids, omitted),
        err |-> raised]

\* get_market_data, the decorated body: one GET carrying every id, then
\* raise_for_status and json; a RequestException gives st.error and [].
FetchMarketData(coin_ids, cur, t, omitted) ==
    LET resp == Answer(t, 1)
        raised == RaisedBy(resp)
    IN [gets |-> <<MarketsRequest(coin_ids, cur)>>,
        value |-> IF raised THEN <<>> ELSE MarketsBody(coin_ids, omitted),
        err |-> raised]

\* the JSON dictionaries /market_chart may answer with
HistBodies == {[isNone |-> FALSE, keys |-> {"prices"}, prices |-> <<3, 4>>],
               [isNone |-> FALSE, keys |-> {"prices"}, prices |-> <<>>],
               [isNone |-> FALSE, keys |-> {}, prices |-> <<>>]}
None == [isNone |-> TRUE, keys |-> {}, prices |-> <<>>]

HistRequest(coin_id, cur, days) ==
    [url |-> MarketChartUrl, ids |-> <<coin_id>>, vs_currency |-> cur, days |-> days]

\* variant: a failed attempt is tried again, up to 3 attempts
FetchHistoricalDataRetry(coin_id, cur, days, t, body) ==
    LET tries == {i \in 1..3 : ~RaisedBy(Answer(t, i))} \cup {3}
        n == CHOOSE i \in tries : \A j \in tries : i <= j
        raised == RaisedBy(Answer(t, n))
    IN [gets |-> [i \in 1..n |-> HistRequest(coin_id, cur, days)],
        value |-> IF raised THEN None ELSE body,
        err |-> raised]

\* get_historical_data, the decorated body
FetchHistoricalData(coin_id, cur, days, t, body) ==
    LET resp == Answer(t, 1)
        raised == RaisedBy(resp)
    IN [gets |-> <<HistRequest(coin_id, cur, days)>>,
        value |-> IF raised THEN None ELSE body,
        err |-> raised]

\* "if historical_data and 'prices' in historical_data"
HasPrices(v) == ~v.isNone /\ v.keys # {} /\ "prices" \in v.keys

\* @st.cache_data(ttl=...): an entry answers calls with its arguments until
\* it is ttl seconds old
\* variant: an entry answers whatever its age
LiveWhateverAge(store, key, ttl) == {e \in store : e.key = key}
Live(store, key, ttl) == {e \in store : e.key = key /\ now - e.at < ttl}
\* variant: only a result that is no failure value is kept
StoreSuccessOnly(store, key, r) ==
    IF r.err THEN store
    ELSE {e \in store : e.key # key}
             \cup {[key |-> key, at |-> now, value |-> r.value, err |-> r.err]}
Store(store, key, r) ==
    {e \in store : e.key # key} \cup {[key |-> key, at |-> now, value |-> r.value, err |-> r.err]}

\* what a call did: served from the cache or not, the transport it faced,
\* the GETs it issued, whether it reported an error
\* history: a call that was not served from the cache, what it was called
\* with, when, and what it returned
Fetched(key, r) == [key |-> key, at |-> now, value |-> r.value, err |-> r.err]
NoCall == [made |-> FALSE, hit |-> FALSE, faced |-> <<>>, gets |-> <<>>, err |-> FALSE]
Call(hit, faced, gets, err) ==
    [made |-> TRUE, hit |-> hit, faced |-> faced, gets |-> gets, err |-> err]

\* one row of display_data: f"{coin[k]:,.2f}" raises KeyError when the key is
\* absent and TypeError when it holds None; f"{coin[k] or 0:.2f}%" raises
\* KeyError when the key is absent and shows 0.00% when it holds None
FormatNumber(v) == IF v = "num" THEN "formatted" ELSE "raise"
FormatPercent(v) == IF v = "num" THEN "formatted" ELSE IF v = "null" THEN "0.00%" ELSE "raise"
DisplayRow(coin) ==
    [f \in NumberFields |-> FormatNumber(coin[f])]
        @@ [f \in PercentFields |-> FormatPercent(coin[f])] @@ [Coin |-> coin.id]
RowRaises(row) == \E f \in NumberFields \cup PercentFields : row[f] = "raise"
\* the rows appended before the comprehension raises, all of them if it does not
RECURSIVE DisplayData(_)
DisplayData(md) ==
    IF md = <<>> THEN <<>>
    ELSE IF RowRaises(DisplayRow(Head(md))) THEN <<>>
    ELSE <<DisplayRow(Head(md))>> \o DisplayData(Tail(md))
DisplayRaises(md) == \E i \in 1..Len(md) : RowRaises(DisplayRow(md[i]))

\* the uploader: empty, or a file whose sheet has a 'coin_id' column holding
\* coin_ids (after dropna().unique()), or a sheet without that column
NoFile == [present |-> FALSE, has_coin_id |-> FALSE, coin_ids |-> <<>>]
UploadFiles ==
    {[present |-> TRUE, has_coin_id |-> TRUE, coin_ids |-> ids] :
        ids \in {<<>>, <<"Bitcoin">>, <<"dogecoin", "bitcoin">>}}
    \cup {[present |-> TRUE, has_coin_id |-> FALSE, coin_ids |-> <<>>]}
\* list(set(...)) lists the elements in the set's iteration order, which the
\* hashes of the strings decide: insertion order here, or by code point, or
\* by code point backwards
SetOrders ==
    {<<"bitcoin", "ethereum", "solana", "cardano", "ripple", "dogecoin", "Bitcoin">>,
     <<"Bitcoin", "bitcoin", "cardano", "dogecoin", "ethereum", "ripple", "solana">>,
     <<"solana", "ripple", "ethereum", "dogecoin", "cardano", "bitcoin", "Bitcoin">>}

\* variant: the imported ids are appended as they come
ImportConcat(wl, new_coins, h) == wl \o new_coins
\* variant: the imported ids replace the watchlist
ImportReplace(wl, new_coins, h) == FilterSeq(h, Range(new_coins))
\* list(set(watchlist + new_coins))
ImportUnion(wl, new_coins, h) == FilterSeq(h, Range(wl \o new_coins))

\* variant: append without the membership test
AppendAlways(wl, new_coin) == Append(wl, new_coin)
\* if new_coin not in watchlist: watchlist.append(new_coin)
AppendIfAbsent(wl, new_coin) ==
    IF new_coin \notin Range(wl) THEN Append(wl, new_coin) ELSE wl

\* variant: the last entry is dropped, whichever coin was named
ListPop(wl, coin) == SubSeq(wl, 1, Len(wl) - 1)
\* watchlist.remove(coin): the first occurrence goes
ListRemove(wl, coin) ==
    LET k == CHOOSE i \in 1..Len(wl) : wl[i] = coin /\ \A j \in 1..(i - 1) : wl[j] # coin
    IN SubSeq(wl, 1, k - 1) \o SubSeq(wl, k + 1, Len(wl))

ErrNoColumn == "File must contain a 'coin_id' column"
ErrMarket == "Error fetching market data"
ErrHist == "Error fetching historical data"
WarnEmpty == "Your watchlist is empty"
WarnNoMarket == "Could not load current market data"
WarnNoHist == "Could not load historical price data"

(***************************************************************************)
(* crypto.py: the script.  Every interaction reruns the script from the    *)
(* top; the sidebar handlers end in st.rerun().                            *)
(***************************************************************************)
\* a script run starts: nothing of the previous run's output is left
ResetRun(position) ==
    /\ pc' = position
    /\ market_data' = <<>>
    /\ mdCall' = NoCall
    /\ histCall' = NoCall
    /\ messages' = {}
    /\ view' = "none"
    /\ display_data' = <<>>
    /\ historical_data' = None
    /\ UNCHANGED <<payload, fetch_log>>

\* an interaction starts a run; with a file in the uploader the run meets the
\* import block of the sidebar first
StartRun ==
    /\ runs < MaxRuns
    /\ runs' = runs + 1
    /\ ResetRun(IF uploaded_file.present THEN "import" ELSE "main")
    /\ UNCHANGED uploaded_file

\* the user puts a file into the uploader
UploadFile(file) ==
    /\ InCrypto
    /\ pc \in {"idle", "raised"}
    /\ ~uploaded_file.present
    /\ runs < MaxRuns
    /\ runs' = runs + 1
    /\ uploaded_file' = file
    /\ ResetRun("import")
    /\ UNCHANGED <<watchlist, currency, time_period, now, cacheMd, cacheHist, transport>>

\* the user clears the uploader
RemoveFile ==
    /\ InCrypto
    /\ pc \in {"idle", "raised", "import"}
    /\ uploaded_file.present
    /\ uploaded_file' = NoFile
    /\ ResetRun("main")
    /\ UNCHANGED <<watchlist, currency, time_period, now, cacheMd, cacheHist, transport, runs>>

\* "if uploaded_file:": with a 'coin_id' column the watchlist becomes
\* list(set(watchlist + new_coins)) and st.rerun() starts the script again,
\* the file still in the uploader; without the column st.error and the run
\* goes on
ImportWatchlist ==
    /\ InCrypto
    /\ pc = "import"
    /\ uploaded_file.present
    /\ IF uploaded_file.has_coin_id
       THEN /\ \E h \in SetOrders :
                  watchlist' = ImportUnion(watchlist, uploaded_file.coin_ids, h)
            /\ ResetRun("import")
       ELSE /\ messages' = messages \cup {ErrNoColumn}
            /\ pc' = "main"
            /\ UNCHANGED <<watchlist, market_data, mdCall, histCall, view, display_data,
                           historical_data, payload, fetch_log>>
    /\ UNCHANGED <<currency, time_period, now, cacheMd, cacheHist, transport, runs,
                   uploaded_file>>

\* the currency selectbox
SelectCurrency(cur) ==
    /\ InCrypto
    /\ pc \in {"idle", "raised"}
    /\ cur # currency
    /\ currency' = cur
    /\ StartRun
    /\ UNCHANGED <<watchlist, time_period, now, cacheMd, cacheHist, transport>>

\* the "Time Period" selectbox, shown with the price table
SelectPeriod(days) ==
    /\ InCrypto
    /\ pc = "idle"
    /\ view \in {"prices", "prices_chart"}
    /\ days # time_period
    /\ time_period' = days
    /\ StartRun
    /\ UNCHANGED <<watchlist, currency, now, cacheMd, cacheHist, transport>>

\* "Add to Watchlist": append when absent
AddToWatchlist(new_coin) ==
    /\ InCrypto
    /\ pc \in {"idle", "raised"}
    /\ watchlist' = AppendIfAbsent(watchlist, new_coin)
    /\ StartRun
    /\ UNCHANGED <<currency, time_period, now, cacheMd, cacheHist, transport>>

\* the "x" button of a watchlist row: list.remove(coin)
RemoveFromWatchlist(coin) ==
    /\ InCrypto
    /\ pc \in {"idle", "raised"}
    /\ coin \in Range(watchlist)
    /\ watchlist' = ListRemove(watchlist, coin)
    /\ StartRun
    /\ UNCHANGED <<currency, time_period, now, cacheMd, cacheHist, transport>>

\* any other interaction: the script runs again with nothing changed
Rerun ==
    /\ InCrypto
    /\ pc \in {"idle", "raised"}
    /\ StartRun
    /\ UNCHANGED <<watchlist, currency, time_period, now, cacheMd, cacheHist, transport>>

\* time passes between two runs; the age of an entry counts when it is looked up
Tick ==
    /\ InCrypto
    /\ pc \in {"idle", "raised"}
    /\ runs < MaxRuns
    /\ now + TickStep <= MaxTime
    /\ now' = now + TickStep
    /\ UNCHANGED <<cacheMd, cacheHist, watchlist, currency, time_period, pc, market_data, mdCall, histCall,
                   messages, view, runs, transport, payload, display_data, historical_data,
                   uploaded_file, fetch_log>>

\* main content: the empty-watchlist warning, or
\* market_data = get_market_data(watchlist, currency), through the cache
MainContent ==
    /\ InCrypto
    /\ pc = "main"
    /\ IF watchlist = <<>>
       THEN /\ messages' = messages \cup {WarnEmpty}
            /\ view' = "empty_watchlist"
            /\ pc' = "idle"
            /\ UNCHANGED <<cacheMd, transport, market_data, mdCall, fetch_log>>
       ELSE /\ LET key == <<watchlist, currency>>
                   live == Live(cacheMd, key, TTL_MARKET)
               IN IF live # {}
                  THEN \E e \in live :
                          /\ market_data' = e.value
                          /\ mdCall' = Call(TRUE, transport, <<>>, e.err)
                          /\ messages' = messages \cup (IF e.err THEN {ErrMarket} ELSE {})
                          /\ UNCHANGED <<cacheMd, transport, fetch_log>>
                  ELSE IF GetBlocks(Answer(transport, 1))
                  THEN UNCHANGED <<market_data, mdCall, messages, cacheMd, transport, fetch_log>>
                  ELSE \E omitted \in Omissions(watchlist) :
                          LET r == FetchMarketData(watchlist, currency, transport, omitted)
                          IN /\ market_data' = r.value
                             /\ mdCall' = Call(FALSE, transport, r.gets, r.err)
                             /\ messages' = messages \cup (IF r.err THEN {ErrMarket} ELSE {})
                             /\ cacheMd' = Store(cacheMd, key, r)
                             /\ transport' = After(transport, Len(r.gets))
                             /\ fetch_log' = [fetch_log EXCEPT
                                                 !.get_market_data = @ \cup {Fetched(key, r)}]
            /\ pc' = IF Live(cacheMd, <<watchlist, currency>>, TTL_MARKET) = {}
                         /\ GetBlocks(Answer(transport, 1))
                      THEN "blocked" ELSE "show"
            /\ UNCHANGED view
    /\ UNCHANGED <<watchlist, currency, time_period, now, cacheHist, histCall, runs,
                   payload, display_data, historical_data, uploaded_file>>

\* "if market_data: ... else: st.warning(...)": the else branch
ShowNoData ==
    /\ InCrypto
    /\ pc = "show"
    /\ market_data = <<>>
    /\ messages' = messages \cup {WarnNoMarket}
    /\ view' = "no_market_data"
    /\ pc' = "idle"
    /\ UNCHANGED <<watchlist, currency, time_period, now, cacheMd, cacheHist,
                   market_data, mdCall, histCall, runs, transport,
                   payload, display_data, historical_data, uploaded_file, fetch_log>>

\* the price table: display_data is built row by row; a field the format
\* cannot take raises out of the script, which ends the run
ShowPrices ==
    /\ InCrypto
    /\ pc = "show"
    /\ market_data # <<>>
    /\ display_data' = DisplayData(market_data)
    /\ IF DisplayRaises(market_data)
       THEN /\ pc' = "raised"
            /\ view' = "exception"
       ELSE /\ pc' = "history"
            /\ view' = "prices"
    /\ UNCHANGED <<watchlist, currency, time_period, now, cacheMd, cacheHist, market_data,
                   mdCall, histCall, messages, runs, transport, payload, historical_data,
                   uploaded_file, fetch_log>>

\* the history of the selected coin (the "Select Coin" selectbox stays on its
\* first option) over the selected period
ShowHistory ==
    /\ InCrypto
    /\ pc = "history"
    /\ LET selected_coin == market_data[1].id
           key == <<selected_coin, currency, time_period>>
           live == Live(cacheHist, key, TTL_HIST)
       IN IF live # {}
          THEN \E e \in live :
                  /\ historical_data' = e.value
                  /\ histCall' = Call(TRUE, transport, <<>>, e.err)
                  /\ messages' = messages \cup (IF e.err THEN {ErrHist} ELSE {})
                                          \cup (IF HasPrices(e.value) THEN {} ELSE {WarnNoHist})
                  /\ view' = IF HasPrices(e.value) THEN "prices_chart" ELSE "prices"
                  /\ UNCHANGED <<cacheHist, transport, fetch_log>>
          ELSE IF GetBlocks(Answer(transport, 1))
          THEN UNCHANGED <<historical_data, histCall, messages, view, cacheHist, transport,
                           fetch_log>>
          ELSE \E body \in HistBodies :
                  LET r == FetchHistoricalData(selected_coin, currency, time_period,
                                               transport, body)
                  IN /\ historical_data' = r.value
                     /\ histCall' = Call(FALSE, transport, r.gets, r.err)
                     /\ messages' = messages \cup (IF r.err THEN {ErrHist} ELSE {})
                                             \cup (IF HasPrices(r.value) THEN {} ELSE {WarnNoHist})
                     /\ view' = IF HasPrices(r.value) THEN "prices_chart" ELSE "prices"
                     /\ cacheHist' = Store(cacheHist, key, r)
                     /\ transport' = After(transport, Len(r.gets))
                     /\ fetch_log' = [fetch_log EXCEPT
                                         !.get_historical_data = @ \cup {Fetched(key, r)}]
    /\ pc' = IF Live(cacheHist, <<market_data[1].id, currency, time_period>>, TTL_HIST) = {}
                 /\ GetBlocks(Answer(transport, 1))
              THEN "blocked" ELSE "idle"
    /\ UNCHANGED <<watchlist, currency, time_period, now, cacheMd, market_data, mdCall, runs,
                   payload, display_data, uploaded_file>>

CryptoInit ==
    /\ watchlist = DEFAULT_COINS
    /\ currency = DEFAULT_CURRENCY
    /\ time_period = DefaultDays
    /\ now = 0
    /\ cacheMd = {}
    /\ cacheHist = {}
    /\ pc = "main"
    /\ market_data = <<>>
    /\ mdCall = NoCall
    /\ histCall = NoCall
    /\ messages = {}
    /\ view = "none"
    /\ runs = 1
    /\ display_data = <<>>
    /\ historical_data = None
    /\ uploaded_file = NoFile
    /\ fetch_log = [get_market_data |-> {}, get_historical_data |-> {}]

CryptoNext ==
    \/ \E cur \in currencies : SelectCurrency(cur)
    \/ \E d \in days_map : SelectPeriod(d)
    \/ \E c \in CoinList : AddToWatchlist(c)
    \/ \E c \in CoinList : RemoveFromWatchlist(c)
    \/ \E file \in UploadFiles : UploadFile(file)
    \/ RemoveFile
    \/ ImportWatchlist
    \/ Rerun
    \/ Tick
    \/ MainContent
    \/ ShowNoData
    \/ ShowPrices
    \/ ShowHistory

(***************************************************************************)
(* Crypto3.py: get_crypto_data(symbols, days).  One loop iteration per     *)
(* symbol of symbols[:max_coins]; the stub provider answers the quote GET  *)
(* with q and the historical GET with h.                                   *)
(***************************************************************************)
SymbolPool == {"BTC", "ETH", "UNKNOWN"}
MaxCoinsSlider == 3     \* largest max_coins explored (the slider goes to 50)
QuoteUrl == "cryptocurrency/quotes/latest"
HistoricalUrl == "cryptocurrency/quotes/historical"
\* raise: requests.get raised; nojson: .json() raised; nodata: JSON without
\* 'data' (an error body: unknown symbol, 429, bad key); nosymbol: 'data'
\* without the symbol's entry; data: a full answer
\* "noprice" / "nomcap": 'data' holds the symbol's item, whose quote lacks
\* 'price' / 'market_cap'
\* "silent": the provider never answers the GET
QuoteAnswers == {"raise", "nojson", "nodata", "nosymbol", "noprice", "nomcap", "data", "silent"}
HistoricalAnswers == {"raise", "nojson", "nodata", "data", "silent"}
\* neither GET has a timeout argument: the iteration waits in the quote GET,
\* or in the historical GET when that one is reached
IterationBlocks(q, h) == q = "silent" \/ (q \notin {"raise", "nojson"} /\ h = "silent")
WarnCouldNotFetch == "Could not fetch data for"

UploadedLists ==
    {l \in UNION {[1..n -> SymbolPool] : n \in 1..Cardinality(SymbolPool)} :
        \A i, j \in 1..Len(l) : i # j => l[i] # l[j]}

Min(a, b) == IF a < b THEN a ELSE b
\* variant: the loop runs over every symbol
LimitNone == Len(symbols)
\* symbols[:max_coins]
Limit == Min(max_coins, Len(symbols))

\* the GETs of one iteration: the historical GET is issued unless the quote
\* GET or its .json() raised
IterationGets(symbol, q) ==
    IF q \in {"raise", "nojson", "silent"}
    THEN <<[url |-> QuoteUrl, symbol |-> symbol]>>
    ELSE <<[url |-> QuoteUrl, symbol |-> symbol], [url |-> HistoricalUrl, symbol |-> symbol]>>

\* how the iteration ends: an exception (except branch), a missing 'data'
\* (the if branch), or a record
Classify(q, h) ==
    IF q \in {"raise", "nojson"} \/ h \in {"raise", "nojson"} THEN "error"
    ELSE IF q = "nodata" \/ h = "nodata" THEN "not_found"
    ELSE IF q \in {"nosymbol", "noprice"} THEN "error"
    ELSE "ok"

\* variant: only the except branch records the symbol
InvalidAppendErrorsOnly(inv, symbol, cls) ==
    IF cls = "not_found" THEN inv ELSE Append(inv, symbol)

\* invalid_symbols.append(symbol), in the if branch and in the except branch
InvalidAppend(inv, symbol, cls) == Append(inv, symbol)

\* variant: a symbol without a record ends the loop
LoopAbort(i, cls) == IF cls = "ok" THEN i + 1 ELSE Limit

\* both branches end in `continue`: the loop goes on with the next symbol
LoopNext(i, cls) == i + 1

\* crypto_data.append({...}): ['price'] raises KeyError when the key is
\* absent, .get('market_cap') gives None
QuoteRecord(symbol, q) ==
    [Symbol |-> symbol, Price |-> "num", MarketCap |-> IF q = "nomcap" THEN "None" ELSE "num"]

C3Upload(syms, mc) ==
    /\ InCMC
    /\ c3pc = "upload"
    /\ symbols' = syms
    /\ max_coins' = mc
    /\ c3pc' = "loop"
    /\ UNCHANGED <<c3i, crypto_data, invalid_symbols, c3gets, c3sleeps, outcome, c3messages,
                   quotes>>

C3Iterate(q, h) ==
    /\ InCMC
    /\ c3pc = "loop"
    /\ c3i < Limit
    /\ LET symbol == symbols[c3i + 1]
           cls == Classify(q, h)
       IN /\ c3sleeps' = IF c3i > 0 /\ c3i % 5 = 0 THEN c3sleeps + 1 ELSE c3sleeps
          /\ c3gets' = c3gets \o IterationGets(symbol, q)
          /\ IF IterationBlocks(q, h)
             THEN /\ c3pc' = "blocked"
                  /\ UNCHANGED <<outcome, quotes, crypto_data, invalid_symbols, c3i>>
             ELSE /\ outcome' = Append(outcome, cls)
                  /\ quotes' = Append(quotes, q)
                  /\ crypto_data' = IF cls = "ok"
                                    THEN Append(crypto_data, QuoteRecord(symbol, q))
                                    ELSE crypto_data
                  /\ invalid_symbols' = IF cls = "ok" THEN invalid_symbols
                                        ELSE InvalidAppend(invalid_symbols, symbol, cls)
                  /\ c3i' = LoopNext(c3i, cls)
                  /\ UNCHANGED c3pc
    /\ UNCHANGED <<symbols, max_coins, c3messages>>

C3Return ==
    /\ InCMC
    /\ c3pc = "loop"
    /\ c3i >= Limit
    /\ c3messages' = IF invalid_symbols # <<>>
                     THEN c3messages \cup {[text |-> WarnCouldNotFetch, symbols |-> invalid_symbols]}
                     ELSE c3messages
    /\ c3pc' = "done"
    /\ UNCHANGED <<symbols, max_coins, c3i, crypto_data, invalid_symbols, c3gets,
                   c3sleeps, outcome, quotes>>

C3Init ==
    /\ c3pc = "upload"
    /\ symbols = <<>>
    /\ max_coins = 1
    /\ c3i = 0
    /\ crypto_data = <<>>
    /\ invalid_symbols = <<>>
    /\ c3gets = <<>>
    /\ c3sleeps = 0
    /\ outcome = <<>>
    /\ quotes = <<>>
    /\ c3messages = {}

C3Next ==
    \/ \E syms \in UploadedLists, mc \in 1..MaxCoinsSlider : C3Upload(syms, mc)
    \/ \E q \in QuoteAnswers, h \in HistoricalAnswers : C3Iterate(q, h)
    \/ C3Return


(***************************************************************************)
(* Crypto_Treasury_Tracker.py.  Amounts are in $M; the manual HYPE price   *)
(* is in cents.                                                            *)
(***************************************************************************)
TokenNames == <<"Bitcoin", "Ethereum", "Tron">>
TOKEN_IDS == [n \in Range(TokenNames) |->
                 CASE n = "Bitcoin" -> "bitcoin"
                   [] n = "Ethereum" -> "ethereum"
                   [] n = "Tron" -> "tron"]
data == <<[Symbol |-> "BITM", Token |-> "Ethereum", Holdings |-> 250, MarketCap |-> 2000],
          [Symbol |-> "SRM", Token |-> "Tron", Holdings |-> 100, MarketCap |-> 800],
          [Symbol |-> "VCNX", Token |-> "Bitcoin", Holdings |-> 500, MarketCap |-> 700],
          [Symbol |-> "SQNS", Token |-> "Bitcoin", Holdings |-> 384, MarketCap |-> 250],
          [Symbol |-> "TMGT", Token |-> "Bitcoin", Holdings |-> 2000, MarketCap |-> 5000],
          [Symbol |-> "HYPECO", Token |-> "Hype", Holdings |-> 305, MarketCap |-> 1000]>>
SimplePriceUrl == "/simple/price"
ErrLivePrices == "Failed to fetch live crypto prices."
\* values the provider may quote and the user may type
PriceValues == {1, 2}
HypePrices == {325, 400}
NA == -1        \* the "N/A" default of prices.get(cg_id, {}).get("usd", "N/A")

\* variant: the ids of every token of the table are sent, mapped or not
FetchIdsAllTokens == {"bitcoin", "ethereum", "tron", "hype"}

\* ids = ','.join(TOKEN_IDS.values())
FetchIds == {TOKEN_IDS[n] : n \in DOMAIN TOKEN_IDS}
\* the JSON dictionaries /simple/price may answer with: a price for some of the ids
PriceBodies == UNION {[ks -> PriceValues] : ks \in SUBSET FetchIds}
EmptyDict == [k \in {} |-> 0]
TreasuryAnswers == {[status |-> 0, json_ok |-> FALSE],
                    [status |-> 429, json_ok |-> TRUE],
                    [status |-> 200, json_ok |-> FALSE],
                    [status |-> 200, json_ok |-> TRUE]}

\* prices.get(cg_id, {}).get("usd", default)
PriceOf(p, cg_id, default) == IF cg_id \in DOMAIN p THEN p[cg_id] ELSE default

\* token_price of a row: the manual input for Hype, else the fetched price of
\* TOKEN_IDS.get(token, ""), 0 when there is none
TokenPrice(token, p, hype) ==
    IF token = "Hype" THEN hype
    ELSE IF token \in DOMAIN TOKEN_IDS THEN PriceOf(p, TOKEN_IDS[token], 0)
    ELSE PriceOf(p, "", 0)

\* market_cap / nav if nav else None
Premium(market_cap, nav) ==
    IF nav # 0 THEN [isNone |-> FALSE, num |-> market_cap, den |-> nav]
    ELSE [isNone |-> TRUE, num |-> 0, den |-> 1]

\* prices = fetch_live_prices(): no try/except around the GET or .json()
TFetch(resp, body, hype) ==
    /\ InTreasury
    /\ tpc = "fetch"
    /\ tfetch' = resp
    /\ tgets' = Append(tgets, [url |-> SimplePriceUrl, ids |-> FetchIds])
    /\ hype_price' = hype
    /\ IF GetRaises(resp) \/ (resp.status = 200 /\ JsonRaises(resp))
       THEN /\ tpc' = "fetch_raised"
            /\ UNCHANGED <<prices, tmessages>>
       ELSE IF resp.status = 200
       THEN /\ prices' = body
            /\ tpc' = "show"
            /\ UNCHANGED tmessages
       ELSE /\ prices' = EmptyDict
            /\ tmessages' = tmessages \cup {ErrLivePrices}
            /\ tpc' = "show"
    /\ UNCHANGED <<tidx, premiums, shown>>

\* "Live Token Prices": f"${price:,}" raises ValueError for the string "N/A"
TShowLivePrices ==
    /\ InTreasury
    /\ tpc = "show"
    /\ LET line(n) == [name |-> n, price |-> PriceOf(prices, TOKEN_IDS[n], NA)]
           lines == [i \in 1..Len(TokenNames) |-> line(TokenNames[i])]
           bad == {i \in 1..Len(lines) : lines[i].price = NA}
       IN IF bad # {}
          THEN /\ shown' = SubSeq(lines, 1, (CHOOSE i \in bad : \A j \in bad : i <= j) - 1)
               /\ tpc' = "display_raised"
          ELSE /\ shown' = Append(lines, [name |-> "Hype", price |-> hype_price])
               /\ tpc' = "rows"
    /\ UNCHANGED <<prices, hype_price, tgets, tidx, premiums, tmessages, tfetch>>

\* one iteration of "for idx, row in df.iterrows()"
TRow ==
    /\ InTreasury
    /\ tpc = "rows"
    /\ tidx < Len(data)
    /\ LET row == data[tidx + 1]
       IN premiums' = Append(premiums,
                         [Symbol |-> row.Symbol, Token |-> row.Token,
                          token_price |-> TokenPrice(row.Token, prices, hype_price),
                          premium |-> Premium(row.MarketCap, row.Holdings)])
    /\ tidx' = tidx + 1
    /\ UNCHANGED <<tpc, prices, hype_price, tgets, shown, tmessages, tfetch>>

\* df["Implied Premium (x NAV)"] = premiums; st.dataframe(df)
TDisplay ==
    /\ InTreasury
    /\ tpc = "rows"
    /\ tidx = Len(data)
    /\ tpc' = "done"
    /\ UNCHANGED <<prices, hype_price, tgets, tidx, premiums, shown, tmessages, tfetch>>

TInit ==
    /\ tpc = "fetch"
    /\ prices = EmptyDict
    /\ hype_price = 325
    /\ tgets = <<>>
    /\ tidx = 0
    /\ premiums = <<>>
    /\ shown = <<>>
    /\ tmessages = {}
    /\ tfetch = [status |-> 200, json_ok |-> TRUE]

TNext ==
    \/ \E resp \in TreasuryAnswers, body \in PriceBodies, hype \in HypePrices :
          TFetch(resp, body, hype)
    \/ TShowLivePrices
    \/ TRow
    \/ TDisplay

(***************************************************************************)
(* Crypto2.py: the technical analysis functions.  A float is a rational    *)
(* n/d in lowest terms, an infinity or NaN; the operations follow IEEE 754 *)
(* on these (rounding aside).  A pandas Series is a sequence of floats,    *)
(* position 1 being index 0.                                               *)
(***************************************************************************)
RECURSIVE GCD(_, _)
GCD(a, b) == IF b = 0 THEN a ELSE GCD(b, a % b)
Abs(x) == IF x < 0 THEN -x ELSE x
Sign(x) == IF x < 0 THEN -1 ELSE IF x > 0 THEN 1 ELSE 0
NaN == [k |-> "nan", n |-> 0, d |-> 1]
Inf(sign) == [k |-> "inf", n |-> sign, d |-> 1]
\* n/d, d # 0, in lowest terms with a positive denominator
Num(n, d) ==
    LET g == GCD(Abs(n), Abs(d))
    IN [k |-> "num", n |-> Sign(d) * (n \div g), d |-> Abs(d) \div g]
Float(i) == Num(i, 1)
IsNum(x) == x.k = "num"
FNeg(x) == IF x.k = "nan" THEN NaN ELSE IF x.k = "inf" THEN Inf(-x.n) ELSE Num(-x.n, x.d)
FAdd(x, y) ==
    IF x.k = "nan" \/ y.k = "nan" THEN NaN
    ELSE IF x.k = "inf" /\ y.k = "inf" THEN (IF x.n = y.n THEN x ELSE NaN)
    ELSE IF x.k = "inf" THEN x
    ELSE IF y.k = "inf" THEN y
    ELSE LET l == (x.d \div GCD(x.d, y.d)) * y.d
         IN Num(x.n * (l \div x.d) + y.n * (l \div y.d), l)
FSub(x, y) == FAdd(x, FNeg(y))
FMul(x, y) ==
    IF x.k = "nan" \/ y.k = "nan" THEN NaN
    ELSE IF x.k = "inf" \/ y.k = "inf"
    THEN (IF Sign(x.n) * Sign(y.n) = 0 THEN NaN ELSE Inf(Sign(x.n) * Sign(y.n)))
    ELSE LET g1 == GCD(Abs(x.n), y.d)
             g2 == GCD(Abs(y.n), x.d)
         IN Num((x.n \div g1) * (y.n \div g2), (x.d \div g2) * (y.d \div g1))
FDiv(x, y) ==
    IF x.k = "nan" \/ y.k = "nan" THEN NaN
    ELSE IF x.k = "inf" THEN (IF y.k = "inf" THEN NaN
                              ELSE Inf(x.n * (IF y.n < 0 THEN -1 ELSE 1)))
    ELSE IF y.k = "inf" THEN Float(0)
    ELSE IF y.n = 0 THEN (IF x.n = 0 THEN NaN ELSE Inf(Sign(x.n)))
    ELSE FMul(x, Num(y.d, y.n))
\* x <= y on numbers
FLeq(x, y) == x.n * y.d <= y.n * x.d

ToSeries(ints) == [i \in 1..Len(ints) |-> Float(ints[i])]

\* Series.diff(): NaN at the first position
Diff(x) == [i \in 1..Len(x) |-> IF i = 1 THEN NaN ELSE FSub(x[i], x[i - 1])]
\* Series.clip(lower=0) / Series.clip(upper=0): NaN stays NaN
ClipLower0(x) == [i \in 1..Len(x) |-> IF IsNum(x[i]) /\ x[i].n < 0 THEN Float(0) ELSE x[i]]
ClipUpper0(x) == [i \in 1..Len(x) |-> IF IsNum(x[i]) /\ x[i].n > 0 THEN Float(0) ELSE x[i]]
Negate(x) == [i \in 1..Len(x) |-> FNeg(x[i])]

RECURSIVE FSum(_, _, _)
FSum(x, from, to) == IF from > to THEN Float(0) ELSE FAdd(x[from], FSum(x, from + 1, to))

\* variant: min_periods=1, the mean of the values seen so far
RollingMeanMin1(x, window) ==
    [i \in 1..Len(x) |->
        LET from == IF i < window THEN 1 ELSE i - window + 1
        IN FDiv(FSum(x, from, i), Float(i - from + 1))]
\* Series.rolling(window).mean(): NaN until the window holds `window`
\* values, none of them NaN
RollingMean(x, window) ==
    [i \in 1..Len(x) |->
        IF i < window THEN NaN
        ELSE FDiv(FSum(x, i - window + 1, i), Float(window))]

\* Series.rolling(window).std() squared: the sample variance (ddof=1) of the
\* window, NaN for window = 1
RollingVar(x, window) ==
    [i \in 1..Len(x) |->
        IF i < window THEN NaN
        ELSE LET mean == FDiv(FSum(x, i - window + 1, i), Float(window))
                 dev2 == [j \in 1..Len(x) |-> FMul(FSub(x[j], mean), FSub(x[j], mean))]
             IN FDiv(FSum(dev2, i - window + 1, i), Float(window - 1))]

\* variant: the smoothing factor without the + 1
AlphaOfWindow(window) == Num(2, window)
\* ewm(span=window): alpha = 2 / (span + 1)
Alpha(window) == Num(2, window + 1)
\* .ewm(span, adjust=False).mean(): y[0] = x[0], y[t] = (1 - a) y[t-1] + a x[t]
RECURSIVE Ewm(_, _, _)
Ewm(x, a, i) ==
    IF i = 1 THEN x[1]
    ELSE FAdd(FMul(FSub(Float(1), a), Ewm(x, a, i - 1)), FMul(a, x[i]))

calculate_rsi(series, window) ==
    LET deltas == Diff(series)
        gains == ClipLower0(deltas)
        losses == Negate(ClipUpper0(deltas))
        avg_gain == RollingMean(gains, window)
        avg_loss == RollingMean(losses, window)
    IN [i \in 1..Len(series) |->
           LET rs == FDiv(avg_gain[i], avg_loss[i])
           IN FSub(Float(100), FDiv(Float(100), FAdd(Float(1), rs)))]

calculate_ema(series, window) == [i \in 1..Len(series) |-> Ewm(series, Alpha(window), i)]

\* variant: the leading undefined positions are dropped
calculate_sma_dropna(series, window) ==
    LET r == RollingMean(series, window)
    IN IF Len(r) < window THEN <<>> ELSE SubSeq(r, window, Len(r))
calculate_sma(series, window) == RollingMean(series, window)

\* variant: the operands of the difference are swapped
calculate_macd_swapped(series, fast, slow, signal) ==
    LET ema_fast == calculate_ema(series, fast)
        ema_slow == calculate_ema(series, slow)
        macd_line == [i \in 1..Len(series) |-> FSub(ema_slow[i], ema_fast[i])]
    IN [macd |-> macd_line, signal_line |-> calculate_ema(macd_line, signal)]
calculate_macd(series, fast, slow, signal) ==
    LET ema_fast == calculate_ema(series, fast)
        ema_slow == calculate_ema(series, slow)
        macd_line == [i \in 1..Len(series) |-> FSub(ema_fast[i], ema_slow[i])]
    IN [macd |-> macd_line, signal_line |-> calculate_ema(macd_line, signal)]

\* a band is sma + side * num_std * sqrt(var), kept as its parts; it is NaN
\* where the mean or the deviation is
Band(sma, var, num_std, side) ==
    [i \in 1..Len(sma) |->
        IF IsNum(sma[i]) /\ IsNum(var[i])
        THEN [k |-> "num", sma |-> sma[i], var |-> var[i], times |-> side * num_std]
        ELSE [k |-> "nan", sma |-> NaN, var |-> NaN, times |-> 0]]
calculate_bollinger_bands(series, window, num_std) ==
    LET sma == calculate_sma(series, window)
        rolling_var == RollingVar(series, window)
    IN [upper |-> Band(sma, rolling_var, num_std, 1),
        lower |-> Band(sma, rolling_var, num_std, -1)]

(***************************************************************************)
(* Crypto2.py: the momentum tab, from historical_data on, and the calls of *)
(* the functions on their own.  The tab calls them with their defaults on  *)
(* the daily series (resample('1D').mean().ffill()) of the answer.         *)
(***************************************************************************)
PriceLevels == {1, 2, 3}
SeriesUpTo(n) == UNION {[1..k -> PriceLevels] : k \in 0..n}
RsiWindow == 14
SmaWindow == 20
Ema12 == 12
Ema26 == 26
MacdSignal == 9
BollingerWindow == 20
NumStd == 2
DefaultArgs == [rsi |-> RsiWindow, sma |-> SmaWindow, fast |-> Ema12, slow |-> Ema26,
                signal |-> MacdSignal, bb |-> BollingerWindow, num_std |-> NumStd]
\* the windows of the calls outside the tab: one window for rsi, sma and the
\* bands, and small spans for the averages
ArgSets ==
    {[rsi |-> w, sma |-> w, fast |-> m[1], slow |-> m[2], signal |-> m[3],
      bb |-> w, num_std |-> NumStd] : w \in 1..MaxWindow, m \in {<<1, 2, 1>>, <<2, 3, 2>>}}
\* what get_historical_data hands the tab
MomentumBodies ==
    {None, [isNone |-> FALSE, keys |-> {}, prices |-> <<>>]}
        \cup {[isNone |-> FALSE, keys |-> {"prices"}, prices |-> x] : x \in SeriesUpTo(MaxTabLen)}
WarnNoMomentum == "Could not load historical data for momentum analysis"

\* historical_data = get_historical_data(...); "if historical_data and
\* 'prices' in historical_data": the frame, or the warning
TabHistory(hd) ==
    /\ InMomentum
    /\ m_pc = "tab"
    /\ m_hist' = hd
    /\ IF HasPrices(hd)
       THEN /\ price' = hd.prices
            /\ m_pc' = "rsi"
            /\ UNCHANGED m_messages
       ELSE /\ m_messages' = m_messages \cup {WarnNoMomentum}
            /\ m_pc' = "done"
            /\ UNCHANGED price
    /\ UNCHANGED <<args, rsi, sma_20, ema_12, ema_26, macd, macd_signal, upper_band, lower_band>>

\* df['rsi'] = calculate_rsi(df['price'])
CalcRsi ==
    /\ InMomentum
    /\ m_pc = "rsi"
    /\ rsi' = calculate_rsi(ToSeries(price), args.rsi)
    /\ m_pc' = "sma"
    /\ UNCHANGED <<m_hist, m_messages, price, args, sma_20, ema_12, ema_26, macd, macd_signal,
                   upper_band, lower_band>>

\* df['sma_20'] = calculate_sma(df['price'], 20)
CalcSma ==
    /\ InMomentum
    /\ m_pc = "sma"
    /\ sma_20' = calculate_sma(ToSeries(price), args.sma)
    /\ m_pc' = "ema"
    /\ UNCHANGED <<m_hist, m_messages, price, args, rsi, ema_12, ema_26, macd, macd_signal,
                   upper_band, lower_band>>

\* df['ema_12'] = calculate_ema(df['price'], 12); df['ema_26'] = ... 26
CalcEma ==
    /\ InMomentum
    /\ m_pc = "ema"
    /\ ema_12' = calculate_ema(ToSeries(price), args.fast)
    /\ ema_26' = calculate_ema(ToSeries(price), args.slow)
    /\ m_pc' = "macd"
    /\ UNCHANGED <<m_hist, m_messages, price, args, rsi, sma_20, macd, macd_signal,
                   upper_band, lower_band>>

\* df['macd'], df['macd_signal'] = calculate_macd(df['price'])
CalcMacd ==
    /\ InMomentum
    /\ m_pc = "macd"
    /\ LET r == calculate_macd(ToSeries(price), args.fast, args.slow, args.signal)
       IN /\ macd' = r.macd
          /\ macd_signal' = r.signal_line
    /\ m_pc' = "bands"
    /\ UNCHANGED <<m_hist, m_messages, price, args, rsi, sma_20, ema_12, ema_26,
                   upper_band, lower_band>>

\* df['upper_band'], df['lower_band'] = calculate_bollinger_bands(df['price'])
CalcBands ==
    /\ InMomentum
    /\ m_pc = "bands"
    /\ LET r == calculate_bollinger_bands(ToSeries(price), args.bb, args.num_std)
       IN /\ upper_band' = r.upper
          /\ lower_band' = r.lower
    /\ m_pc' = IF app = "Crypto2.py" THEN "metrics" ELSE "done"
    /\ UNCHANGED <<m_hist, m_messages, price, args, rsi, sma_20, ema_12, ema_26, macd,
                   macd_signal>>

\* the metrics: df['rsi'].iloc[-1] and .iloc[-2] raise IndexError on a frame
\* of fewer than two rows
TabMetrics ==
    /\ InMomentum
    /\ m_pc = "metrics"
    /\ m_pc' = IF Len(price) < 2 THEN "raised" ELSE "done"
    /\ UNCHANGED <<m_hist, m_messages, price, args, rsi, sma_20, ema_12, ema_26, macd,
                   macd_signal, upper_band, lower_band>>

MomentumInit ==
    /\ m_pc = (IF app = "Crypto2.py" THEN "tab"
               ELSE IF app = "Crypto2.py functions" THEN "rsi" ELSE "off")
    /\ m_hist = None
    /\ m_messages = {}
    /\ price \in (IF app = "Crypto2.py functions" THEN SeriesUpTo(MaxSeries) ELSE {<<>>})
    /\ args \in (IF app = "Crypto2.py functions" THEN ArgSets ELSE {DefaultArgs})
    /\ rsi = <<>>
    /\ sma_20 = <<>>
    /\ ema_12 = <<>>
    /\ ema_26 = <<>>
    /\ macd = <<>>
    /\ macd_signal = <<>>
    /\ upper_band = <<>>
    /\ lower_band = <<>>

MomentumNext ==
    \/ \E hd \in MomentumBodies : TabHistory(hd)
    \/ CalcRsi
    \/ CalcSma
    \/ CalcEma
    \/ CalcMacd
    \/ CalcBands
    \/ TabMetrics

(***************************************************************************)
(* The scores of one symbol.  Crypto3.py computes its momentum score on    *)
(* Python floats, where a division by zero raises ZeroDivisionError;       *)
(* Crypto4.py computes on numpy floats, where it gives inf or NaN.  The    *)
(* RSI and MACD of the ta library are left out.                            *)
(***************************************************************************)
NoScore == [k |-> "none", n |-> 0, d |-> 1]
\* x[-back]
At(x, back) == x[Len(x) - back + 1]
\* ((last - earlier) / earlier) * 100
Pct(last, earlier) ==
    FMul(FDiv(FSub(Float(last), Float(earlier)), Float(earlier)), Float(100))
MinLen == 14
Week == 7
Month == 30
\* variant: the weights of another variant of the score
WeightsEven == <<Num(2, 5), Num(3, 10), Num(3, 10)>>
Weights == <<Num(1, 2), Num(3, 10), Num(1, 5)>>
\* the earlier prices the three changes divide by
Earlier(hp) ==
    (IF Len(hp) >= 2 THEN {At(hp, 2)} ELSE {})
        \cup (IF Len(hp) >= Week THEN {At(hp, Week)} ELSE {})
        \cup {At(hp, Min(Month, Len(hp)))}
\* changes = [...]; momentum_score = sum(w * c for w, c in zip([0.5, 0.3, 0.2], changes))
MomentumScore(hp) ==
    LET changes == <<IF Len(hp) >= 2 THEN Pct(At(hp, 1), At(hp, 2)) ELSE Float(0),
                     IF Len(hp) >= Week THEN Pct(At(hp, 1), At(hp, Week)) ELSE Float(0),
                     Pct(At(hp, 1), At(hp, Min(Month, Len(hp))))>>
    IN FAdd(FAdd(FMul(Weights[1], changes[1]), FMul(Weights[2], changes[2])),
            FMul(Weights[3], changes[3]))

\* the historical price lists: flat at 3 but for the last price, the one
\* before it, the 7th and the 30th from the end, and the first
HistValues == {0, 1, 2}
HistoricalPrices(len, v) ==
    [i \in 1..len |->
        IF i = len THEN v[1]
        ELSE IF i = len - 1 THEN v[2]
        ELSE IF i = len - Week + 1 THEN v[3]
        ELSE IF i = len - Month + 1 THEN v[4]
        ELSE IF i = 1 THEN v[5]
        ELSE 3]
HistoricalPriceLists ==
    {HistoricalPrices(len, v) : len \in 0..MaxHist, v \in [1..5 -> HistValues]}

\* Crypto3.py, "Calculate indicators": the score stays None below 14 prices;
\* a ZeroDivisionError reaches "except Exception", which puts the symbol
\* into invalid_symbols instead of a record
C3Indicators ==
    /\ InScores
    /\ app = "Crypto3.py indicators"
    /\ s_pc = "indicators"
    /\ IF Len(historical_prices) < MinLen
       THEN /\ momentum_score' = NoScore
            /\ s_pc' = "record"
       ELSE IF 0 \in Earlier(historical_prices)
       THEN /\ s_pc' = "invalid"
            /\ UNCHANGED momentum_score
       ELSE /\ momentum_score' = MomentumScore(historical_prices)
            /\ s_pc' = "record"
    /\ UNCHANGED <<historical_prices, frame, change_24h>>

\* Crypto4.py
NoFrame == [empty |-> TRUE, Close |-> <<>>, Volume |-> <<>>]
\* the frames of 1..MaxRows rows
Frames ==
    UNION {{[empty |-> FALSE, Close |-> c, Volume |-> v] :
               c \in [1..k -> HistValues], v \in [1..k -> HistValues]} : k \in 1..MaxRows}

calculate_momentum_score(df) ==
    IF Len(df.Close) < 2 THEN Float(0)
    ELSE LET price_change == Pct(At(df.Close, 1), At(df.Close, 2))
             volume_change == IF At(df.Volume, 2) # 0
                              THEN Pct(At(df.Volume, 1), At(df.Volume, 2)) ELSE Float(0)
         IN FAdd(FMul(price_change, Num(7, 10)), FMul(volume_change, Num(3, 10)))

\* result = get_crypto_data(symbol, date_range, interval): None for an empty
\* frame or an exception, else the frame and its momentum score
K4GetCryptoData(df) ==
    /\ InScores
    /\ app = "Crypto4.py"
    /\ s_pc = "get"
    /\ frame' = df
    /\ IF df.empty
       THEN /\ s_pc' = "could_not_fetch"
            /\ UNCHANGED momentum_score
       ELSE /\ momentum_score' = calculate_momentum_score(df)
            /\ s_pc' = "metrics"
    /\ UNCHANGED <<historical_prices, change_24h>>

\* "Calculate metrics": price_change = (current_price - prev_price) / prev_price * 100
K4Metrics ==
    /\ InScores
    /\ app = "Crypto4.py"
    /\ s_pc = "metrics"
    /\ LET current_price == At(frame.Close, 1)
           prev_price == IF Len(frame.Close) > 1 THEN At(frame.Close, 2) ELSE current_price
       IN change_24h' = Pct(current_price, prev_price)
    /\ s_pc' = "done"
    /\ UNCHANGED <<historical_prices, frame, momentum_score>>

ScoresInit ==
    /\ s_pc = (IF app = "Crypto3.py indicators" THEN "indicators"
               ELSE IF app = "Crypto4.py" THEN "get" ELSE "off")
    /\ historical_prices \in
          (IF app = "Crypto3.py indicators" THEN HistoricalPriceLists ELSE {<<>>})
    /\ frame = NoFrame
    /\ momentum_score = NoScore
    /\ change_24h = NoScore

ScoresNext ==
    \/ C3Indicators
    \/ \E df \in Frames \cup {NoFrame} : K4GetCryptoData(df)
    \/ K4Metrics

(***************************************************************************)
(* Crypto3.py: the session.  Every interaction with a widget reruns the    *)
(* script; the button is True in the run its press starts and in no other. *)
(* get_crypto_data is taken here by its result: a record, which carries    *)
(* the day count it was fetched for, for some of the symbols.              *)
(***************************************************************************)
NoUpload == [present |-> FALSE, symbols |-> <<>>]
\* the files: one without a valid symbol, and two lists
SessionUploads ==
    {[present |-> TRUE, symbols |-> l] : l \in {<<>>, <<"BTC">>, <<"ETH", "BTC">>}}
DaysSlider == {30, 7}
DefaultSliderDays == 30
\* what get_crypto_data(symbols, days) may return
SessionResults(syms, days) ==
    {[i \in 1..Len(FilterSeq(syms, keep)) |->
         [Symbol |-> FilterSeq(syms, keep)[i], days |-> days]] : keep \in SUBSET Range(syms)}

\* variant: every run with valid symbols fetches
ShouldFetchAlways(button, stored) == TRUE
\* "if update_button or not st.session_state.get('crypto_data')"
ShouldFetch(button, stored) == button \/ stored = <<>>

\* an interaction starts a script run
SessionRerun(button) ==
    /\ InSession
    /\ f_pc = "idle"
    /\ f_runs < MaxSessionRuns
    /\ f_runs' = f_runs + 1
    /\ update_button' = button
    /\ f_pc' = "run"
    /\ f_shown' = <<>>
    /\ UNCHANGED <<session_crypto_data, f_fetches>>

\* the file uploader: a file is put in, replaced or taken out
SessionUpload(file) ==
    /\ SessionRerun(FALSE)
    /\ file # f_uploaded
    /\ f_uploaded' = file
    /\ UNCHANGED f_days

\* the "Number of days for analysis" slider
SessionSetDays(d) ==
    /\ SessionRerun(FALSE)
    /\ d # f_days
    /\ f_days' = d
    /\ UNCHANGED f_uploaded

\* the "Update Data" button
SessionPressUpdate ==
    /\ SessionRerun(TRUE)
    /\ UNCHANGED <<f_uploaded, f_days>>

\* "Main app logic": no file, no valid symbols, a fetch that is stored in
\* the session, or the stored crypto_data
SessionRun ==
    /\ InSession
    /\ f_pc = "run"
    /\ IF ~f_uploaded.present \/ f_uploaded.symbols = <<>>
       THEN UNCHANGED <<session_crypto_data, f_fetches, f_shown>>
       ELSE IF ShouldFetch(update_button, session_crypto_data)
       THEN \E r \in SessionResults(f_uploaded.symbols, f_days) :
               /\ session_crypto_data' = r
               /\ f_fetches' = f_fetches + 1
               /\ f_shown' = r
       ELSE /\ f_shown' = session_crypto_data
            /\ UNCHANGED <<session_crypto_data, f_fetches>>
    /\ f_pc' = "idle"
    /\ UNCHANGED <<f_runs, f_uploaded, f_days, update_button>>

SessionInit ==
    /\ f_pc = (IF app = "Crypto3.py session" THEN "run" ELSE "off")
    /\ f_runs = 1
    /\ f_uploaded = NoUpload
    /\ f_days = DefaultSliderDays
    /\ update_button = FALSE
    /\ session_crypto_data = <<>>
    /\ f_fetches = 0
    /\ f_shown = <<>>

SessionNext ==
    \/ \E file \in SessionUploads \cup {NoUpload} : SessionUpload(file)
    \/ \E d \in DaysSlider : SessionSetDays(d)
    \/ SessionPressUpdate
    \/ SessionRun

(***************************************************************************)
(* The specification: one of the scripts runs.                             *)
(***************************************************************************)
Apps == {"crypto.py", "Crypto3.py", "Crypto_Treasury_Tracker.py", "Crypto2.py",
         "Crypto2.py functions", "Crypto3.py indicators", "Crypto4.py",
         "Crypto3.py session"}

Init ==
    /\ app \in Apps
    /\ transport \in (IF app = "crypto.py" THEN TransportScripts ELSE {<<>>})
    /\ payload \in (IF app = "crypto.py" /\ transport = <<>> THEN Payloads ELSE {Complete})
    /\ CryptoInit
    /\ C3Init
    /\ TInit
    /\ MomentumInit
    /\ ScoresInit
    /\ SessionInit

Next == CryptoNext \/ C3Next \/ TNext \/ MomentumNext \/ ScoresNext \/ SessionNext

Spec == Init /\ [][Next]_vars

\* The script is single-threaded and runs each of its steps as soon as the
\* one before has returned: a step of the script that can be taken is taken.
\* The interactions of the user are under no such obligation.
FairSpec ==
    /\ Spec
    /\ WF_vars(MainContent)
    /\ WF_vars(ShowNoData)
    /\ WF_vars(ShowPrices)
    /\ WF_vars(ShowHistory)
    /\ WF_vars(\E q \in QuoteAnswers, h \in HistoricalAnswers : C3Iterate(q, h))
    /\ WF_vars(C3Return)


(***************************************************************************)
(* Properties.                                                             *)
(***************************************************************************)
InCryptoApp == app = "crypto.py"
InCMCApp == app = "Crypto3.py"
InTreasuryApp == app = "Crypto_Treasury_Tracker.py"
\* the get_market_data / get_historical_data call of this run reached the provider
MdFetched == InCryptoApp /\ mdCall.made /\ ~mdCall.hit
HistFetched == InCryptoApp /\ histCall.made /\ ~histCall.hit
Ids(records) == [i \in 1..Len(records) |-> records[i].id]
MarketsBodies == {MarketsBody(watchlist, o) : o \in Omissions(watchlist)}
CryptoMessages == {ErrNoColumn, ErrMarket, ErrHist, WarnEmpty, WarnNoMarket, WarnNoHist}
\* a non-429 error status or a network-level exception
HardFailure(resp) == GetRaises(resp) \/ (RaiseForStatusRaises(resp) /\ resp # RateLimited)

\* C1 (as stated): against a transport that answers 429 twice and then 200 a
\* fetch makes exactly 3 GETs and returns the 200 body; against one that keeps
\* answering 429 it fails after max_attempts = 3 GETs.
C1_RetriesOn429 ==
    MdFetched =>
        /\ mdCall.faced = TransportScript(0, RateLimited, 2) =>
              Len(mdCall.gets) = 3 /\ ~mdCall.err /\ market_data \in MarketsBodies
        /\ mdCall.faced = TransportScript(0, RateLimited, 3) =>
              Len(mdCall.gets) = 3 /\ mdCall.err /\ market_data = <<>>

\* C1 (amended): a fetch that reaches the provider makes exactly one GET,
\* whatever the transport would answer next: a first answer of 429 gives the
\* failure value [] after that one attempt, and the 200 body is returned only
\* when the first answer is a good 200; Crypto3 never repeats a GET either.
C1_SingleAttempt ==
    /\ MdFetched =>
          /\ Len(mdCall.gets) = 1
          /\ Answer(mdCall.faced, 1) = RateLimited => mdCall.err /\ market_data = <<>>
          /\ Answer(mdCall.faced, 1) = GoodAnswer =>
                ~mdCall.err /\ market_data \in MarketsBodies
          /\ ~mdCall.err => Answer(mdCall.faced, 1) = GoodAnswer
    /\ InCMCApp => \A i, j \in 1..Len(c3gets) : i # j => c3gets[i] # c3gets[j]

C1_Witness ==
    /\ MdFetched
    /\ pc = "show"
    /\ mdCall.faced = TransportScript(0, RateLimited, 2)
    /\ Len(mdCall.gets) = 1
    /\ market_data = <<>>

\* C2 (as stated): when the primary source fails or returns nothing and a
\* secondary source would return N records, get_market_data returns those N
\* records and the caller is told that the fallback was used.
FallbackNotice == "fallback source used"
C3_NoWastedCalls ==
    InCryptoApp /\ mdCall.made /\ ~mdCall.err /\ Len(market_data) > 0 =>
        \A i \in 1..Len(mdCall.gets) : mdCall.gets[i].url = MarketsUrl

C3_Witness ==
    /\ MdFetched
    /\ ~mdCall.err
    /\ Len(market_data) > 0
    /\ Len(mdCall.gets) = 1

\* C4: when the fetch fails, get_market_data hands the caller an empty list,
\* and the run ends in the "could not load" warning: no price table, no
\* history fetch.
C4_NoDataBranch ==
    InCryptoApp /\ mdCall.made /\ mdCall.err =>
        /\ pc \in {"show", "idle"}
        /\ Len(market_data) = 0
        /\ pc = "idle" =>
              /\ view = "no_market_data"
              /\ WarnNoMarket \in messages
              /\ ~histCall.made

C4_Witness ==
    /\ MdFetched
    /\ mdCall.err
    /\ pc = "idle"
    /\ view = "no_market_data"
    /\ WarnNoMarket \in messages

\* C5 (as stated): whatever the transport does (error status, network-level
\* exception, a body that is not JSON), a fetch function returns its failure
\* value and no exception leaves it.
C5_NoExceptionEscapes ==
    /\ InCryptoApp /\ mdCall.made /\ RaisedBy(Answer(mdCall.faced, 1)) /\ ~mdCall.hit =>
          market_data = <<>>
    /\ InCryptoApp /\ histCall.made /\ RaisedBy(Answer(histCall.faced, 1)) /\ ~histCall.hit =>
          view = "prices"
    /\ InTreasuryApp => tpc # "fetch_raised"

\* C6 (as stated): on a non-429 error status or a network-level exception the
\* fetch tries again and reports failure only after max_attempts = 3 GETs;
\* one logical fetch never makes more than max_attempts GETs.
C6_RetriesOnError ==
    /\ MdFetched /\ mdCall.err /\ HardFailure(Answer(mdCall.faced, 1)) =>
          Len(mdCall.gets) = 3
    /\ HistFetched /\ histCall.err /\ HardFailure(Answer(histCall.faced, 1)) =>
          Len(histCall.gets) = 3
    /\ InCryptoApp => Len(mdCall.gets) <= 3 /\ Len(histCall.gets) <= 3

\* C6 (amended): on a non-429 error status or a network-level exception the
\* fetch neither waits nor tries again: it reports failure ([] / None) after
\* its single GET and leaves the transport's later answers unused; one logical
\* fetch makes one GET, or none when the cache answers.
C6_FailsAtOnce ==
    /\ MdFetched /\ HardFailure(Answer(mdCall.faced, 1)) =>
          /\ mdCall.err
          /\ Len(mdCall.gets) = 1
          /\ market_data = <<>>
          /\ transport = After(mdCall.faced, 1)
    /\ HistFetched /\ HardFailure(Answer(histCall.faced, 1)) =>
          /\ histCall.err
          /\ Len(histCall.gets) = 1
          /\ view = "prices"
          /\ WarnNoHist \in messages
          /\ transport = After(histCall.faced, 1)
    /\ InCryptoApp =>
          /\ Len(mdCall.gets) = (IF mdCall.made /\ ~mdCall.hit THEN 1 ELSE 0)
          /\ Len(histCall.gets) = (IF histCall.made /\ ~histCall.hit THEN 1 ELSE 0)

C6_Witness ==
    /\ HistFetched
    /\ Answer(histCall.faced, 1) = ServerError
    /\ Answer(histCall.faced, 2) = ServerError
    /\ histCall.err
    /\ Len(histCall.gets) = 1

\* C7 (as stated): for any batch limit L the quote fetch issues ceil(n/L)
\* requests, none carrying more than L identifiers, and the result lists the
\* records in input order.
C7_Batching ==
    MdFetched =>
        \A L \in 1..10 :
            /\ Len(mdCall.gets) = (Len(watchlist) + L - 1) \div L
            /\ \A i \in 1..Len(mdCall.gets) : Len(mdCall.gets[i].ids) <= L
            /\ ~mdCall.err => Ids(market_data) = FilterSeq(watchlist, Range(Ids(market_data)))

\* the iterations of the loop that have begun: the ones that ended and the
\* one that waits for its answer
IterationsStarted == c3i + (IF c3pc = "blocked" THEN 1 ELSE 0)

\* C7 (amended): there is no batching.  get_market_data issues one request
\* carrying all n identifiers of the watchlist, in watchlist order, whatever n
\* is, and returns the records in the provider's order (market capitalisation,
\* descending), not in input order; get_crypto_data issues, per symbol, one
\* quote request and at most one historical request, each for that symbol
\* alone, and lists its records in input order.
C7_NoBatching ==
    /\ MdFetched =>
          /\ mdCall.gets = <<MarketsRequest(watchlist, currency)>>
          /\ Ids(market_data) = FilterSeq(McapOrder, Range(Ids(market_data)))
          /\ Range(Ids(market_data)) \subseteq Range(watchlist)
    /\ InCMCApp =>
          /\ Len(c3gets) >= IterationsStarted /\ Len(c3gets) <= 2 * IterationsStarted
          /\ \A i \in 1..Len(c3gets) :
                c3gets[i].symbol \in Range(SubSeq(symbols, 1, IterationsStarted))
          /\ LET got == {crypto_data[i].Symbol : i \in 1..Len(crypto_data)}
             IN [i \in 1..Len(crypto_data) |-> crypto_data[i].Symbol] = FilterSeq(symbols, got)

C7_Witness ==
    /\ MdFetched
    /\ ~mdCall.err
    /\ Len(watchlist) = 5
    /\ Len(mdCall.gets) = 1
    /\ Len(mdCall.gets[1].ids) = 5
    /\ Len(market_data) = 5
    /\ Ids(market_data) # watchlist

\* C8: a symbol the provider does not recognise, or whose processing fails,
\* does not end the loop: every symbol of symbols[:max_coins] is processed and
\* each one the provider answered in full has its record.
C8_BadSymbolSkipped ==
    InCMCApp /\ c3pc = "done" =>
        /\ c3i = Limit
        /\ Len(outcome) = Limit
        /\ \A j \in 1..Limit :
              outcome[j] = "ok" <=>
                  \E i \in 1..Len(crypto_data) : crypto_data[i].Symbol = symbols[j]

C8_Witness ==
    /\ InCMCApp
    /\ c3pc = "done"
    /\ Len(outcome) = 3
    /\ outcome[1] = "not_found"
    /\ outcome[2] = "error"
    /\ outcome[3] = "ok"
    /\ Len(crypto_data) = 1

\* C9 (as stated): for [BTC, ETH, UNKNOWN] with BTC and ETH answered the
\* output has exactly 2 records and UNKNOWN is reported as not found; the
\* report of a symbol that was not found is never the report of a fetch error.
OutcomeOf(sym) == outcome[CHOOSE j \in 1..Len(outcome) : symbols[j] = sym]
C9_NotFoundDistinct ==
    InCMCApp /\ c3pc = "done" =>
        /\ symbols = <<"BTC", "ETH", "UNKNOWN">> /\ outcome = <<"ok", "ok", "not_found">> =>
              /\ Len(crypto_data) = 2
              /\ \E m \in c3messages : "UNKNOWN" \in Range(m.symbols)
        /\ \A m \in c3messages : \A a, b \in Range(m.symbols) : OutcomeOf(a) = OutcomeOf(b)

\* C9 (amended): for [BTC, ETH, UNKNOWN] with BTC and ETH answered the output
\* has exactly 2 records and UNKNOWN is named in the one "Could not fetch data
\* for" warning.  That warning names every symbol without a record, those the
\* provider did not know and those whose fetch raised alike: the two
\* conditions are not told apart.
RECURSIVE Unanswered(_)
Unanswered(n) ==
    IF n = 0 THEN <<>>
    ELSE IF outcome[n] = "ok" THEN Unanswered(n - 1)
    ELSE Append(Unanswered(n - 1), symbols[n])
C9_SingleReport ==
    InCMCApp /\ c3pc = "done" =>
        /\ Len(outcome) = Limit
        /\ Len(crypto_data) = Cardinality({j \in 1..Len(outcome) : outcome[j] = "ok"})
        /\ invalid_symbols = Unanswered(Len(outcome))
        /\ c3messages = IF invalid_symbols = <<>> THEN {}
                        ELSE {[text |-> WarnCouldNotFetch, symbols |-> invalid_symbols]}

C9_Witness ==
    /\ InCMCApp
    /\ c3pc = "done"
    /\ symbols = <<"BTC", "ETH", "UNKNOWN">>
    /\ outcome = <<"ok", "ok", "not_found">>
    /\ Len(crypto_data) = 2
    /\ c3messages = {[text |-> WarnCouldNotFetch, symbols |-> <<"UNKNOWN">>]}

\* C10 (as stated): a token without an entry in TOKEN_IDS (Hype) is never
\* sent upstream, does not appear in the output and is reported to the caller
\* as untranslatable.
Untranslatable == "untranslatable: Hype"
MappedIds == {TOKEN_IDS[n] : n \in DOMAIN TOKEN_IDS}
Placeholders == {"formatted", "0.00%"}
C11_PlaceholderNeverRaises ==
    /\ InCryptoApp /\ pc \in {"history", "idle", "raised"} /\ market_data # <<>> =>
          /\ pc # "raised"
          /\ Len(display_data) = Len(market_data)
          /\ \A i \in 1..Len(display_data) :
                \A f \in NumberFields \cup PercentFields : display_data[i][f] \in Placeholders
    /\ InCMCApp /\ c3pc = "done" =>
          \A j \in 1..Len(quotes) :
              quotes[j] \in {"noprice", "nomcap"} /\ outcome[j] # "not_found" =>
                  \E i \in 1..Len(crypto_data) : crypto_data[i].Symbol = symbols[j]

\* C12: get_historical_data returns None, never an empty series, whenever the
\* provider has no data for the coin, so that the caller's "no data" branch
\* (the warning) is taken exactly in that case and the chart is drawn only
\* from a series that has points.
NoData(v) == v.isNone \/ v.prices = <<>>
C12_NoneWhenNoData ==
    InCryptoApp /\ histCall.made /\ pc = "idle" =>
        /\ ~(HasPrices(historical_data) /\ historical_data.prices = <<>>)
        /\ NoData(historical_data) <=> view = "prices" /\ WarnNoHist \in messages

\* str.lower on the identifiers of the model
Lower(id) == IF id = "Bitcoin" THEN "bitcoin" ELSE id
NoDuplicates(wl) == \A i, j \in 1..Len(wl) : i # j => wl[i] # wl[j]

\* C13 (as stated): after any sequence of add, remove and bulk-import
\* operations from the default watchlist, no two identifiers of the watchlist
\* are equal ignoring case.
C13_UniqueIgnoringCase ==
    InCryptoApp =>
        \A i, j \in 1..Len(watchlist) : i # j => Lower(watchlist[i]) # Lower(watchlist[j])

\* C13 (amended): after any sequence of add, remove and bulk-import
\* operations from the default watchlist, no two identifiers of the watchlist
\* are the same string; identifiers that differ only in case are different
\* entries.
C13_UniqueExactly == InCryptoApp => NoDuplicates(watchlist)

C13_Witness ==
    /\ InCryptoApp
    /\ uploaded_file.present
    /\ pc = "import"
    /\ "bitcoin" \in Range(watchlist)
    /\ "Bitcoin" \in Range(watchlist)
    /\ "dogecoin" \notin Range(watchlist)

\* C14: add appends the identifier at the end when it is absent and leaves
\* the watchlist unchanged when it is present; remove deletes the named
\* identifier, which is absent afterwards, and leaves every other entry and
\* their relative order unchanged.
C14_AddRemoveFrame ==
    [][/\ \A c \in CoinList :
            AddToWatchlist(c) =>
                watchlist' = IF c \in Range(watchlist) THEN watchlist ELSE watchlist \o <<c>>
       /\ \A c \in CoinList :
            RemoveFromWatchlist(c) =>
                /\ c \notin Range(watchlist')
                /\ watchlist' = FilterSeq(watchlist, Range(watchlist) \ {c})]_vars

C14_Witness ==
    /\ InCryptoApp
    /\ runs = 2
    /\ ~uploaded_file.present
    /\ watchlist = <<"bitcoin", "ethereum", "cardano", "ripple">>

\* C15 (as stated): bulk import leaves the watchlist equal to the union of
\* its previous contents and the imported identifiers: no entry lost, none
\* duplicated, and the entries present before keep their relative order.
ImportStep == ImportWatchlist /\ uploaded_file.has_coin_id
C15_ImportKeepsOrder ==
    [][ImportStep =>
          /\ Range(watchlist') = Range(watchlist) \cup Range(uploaded_file.coin_ids)
          /\ NoDuplicates(watchlist')
          /\ FilterSeq(watchlist', Range(watchlist)) = watchlist]_vars

\* C15 (amended): bulk import leaves the watchlist holding exactly the union
\* of its previous contents and the imported identifiers, each once: no
\* entry is lost and none is duplicated.  The order of the result is the
\* iteration order of a set: the entries present before need not keep their
\* relative order.
C15_ImportIsUnion ==
    [][ImportStep =>
          /\ Range(watchlist') = Range(watchlist) \cup Range(uploaded_file.coin_ids)
          /\ NoDuplicates(watchlist')]_vars

C15_Witness ==
    /\ InCryptoApp
    /\ pc = "import"
    /\ uploaded_file.coin_ids = <<"dogecoin", "bitcoin">>
    /\ Range(watchlist) = Range(DEFAULT_COINS) \cup {"dogecoin"}
    /\ Len(watchlist) = 6
    /\ FilterSeq(watchlist, Range(DEFAULT_COINS)) # DEFAULT_COINS


(***************************************************************************)
(* Crypto2.py: the technical analysis functions, claims C16 to C20.        *)
(***************************************************************************)
\* the frame of the tab exists, or the functions are called on their own,
\* and the position is one of pcs
Called(pcs) ==
    /\ app \in {"Crypto2.py", "Crypto2.py functions"}
    /\ m_pc \in pcs
    /\ app = "Crypto2.py" => HasPrices(m_hist)
RsiCalled == Called({"sma", "ema", "macd", "bands", "metrics", "done", "raised"})
SmaCalled == Called({"ema", "macd", "bands", "metrics", "done", "raised"})
EmaCalled == Called({"macd", "bands", "metrics", "done", "raised"})
MacdCalled == Called({"bands", "metrics", "done", "raised"})
AllCalled == Called({"metrics", "done", "raised"})
\* the trailing window of w changes ending at position i holds no loss
NoLoss(i, w) == i - w >= 1 /\ \A j \in (i - w + 1)..i : price[j] >= price[j - 1]

\* C16: calculate_rsi is in [0, 100] wherever it is defined, and it is
\* exactly 100, never infinity or NaN, at every position whose trailing
\* window has an average loss of exactly 0, a window without any price
\* change included.
C16_RsiRangeAnd100 ==
    RsiCalled =>
        \A i \in 1..Len(rsi) :
            /\ rsi[i].k # "inf"
            /\ IsNum(rsi[i]) => FLeq(Float(0), rsi[i]) /\ FLeq(rsi[i], Float(100))
            /\ NoLoss(i, args.rsi) => rsi[i] = Float(100)

\* C17 as stated: sma, ema and rsi are undefined at every position before
\* index w-1 (positions 1..w-1 here), for every window w.
C17_UndefinedBeforeWindow ==
    /\ RsiCalled => \A i \in 1..Len(rsi) : i < args.rsi => rsi[i] = NaN
    /\ SmaCalled => \A i \in 1..Len(sma_20) : i < args.sma => sma_20[i] = NaN
    /\ EmaCalled => /\ \A i \in 1..Len(ema_12) : i < args.fast => ema_12[i] = NaN
                    /\ \A i \in 1..Len(ema_26) : i < args.slow => ema_26[i] = NaN
\* C17, amended: sma is undefined exactly at the positions before index w-1
\* and rsi at the positions up to and including index w-1, so either is
\* undefined everywhere on a series shorter than w; ema is a number at every
\* position, from index 0 on.
C17_UndefinedSmaRsiOnly ==
    /\ RsiCalled => \A i \in 1..Len(rsi) : i <= args.rsi => rsi[i] = NaN
    /\ SmaCalled => \A i \in 1..Len(sma_20) : i < args.sma <=> sma_20[i] = NaN
    /\ EmaCalled => /\ \A i \in 1..Len(ema_12) : IsNum(ema_12[i])
                    /\ \A i \in 1..Len(ema_26) : IsNum(ema_26[i])
C17_Witness ==
    /\ app = "Crypto2.py functions"
    /\ m_pc = "done"
    /\ Len(price) = 2
    /\ args.sma = MaxWindow
    /\ args.fast = 2
    /\ sma_20 = <<NaN, NaN>>
    /\ IsNum(ema_12[1])

\* C18: every function returns series of exactly the length of its input,
\* position for position, and leaves the price series as it was; the result
\* is a function of the series and the windows alone.
C18_Pure ==
    [][/\ CalcRsi => price' = price /\ DOMAIN rsi' = DOMAIN price
       /\ CalcSma => price' = price /\ DOMAIN sma_20' = DOMAIN price
       /\ CalcEma => /\ price' = price
                     /\ DOMAIN ema_12' = DOMAIN price
                     /\ DOMAIN ema_26' = DOMAIN price
       /\ CalcMacd => /\ price' = price
                      /\ DOMAIN macd' = DOMAIN price
                      /\ DOMAIN macd_signal' = DOMAIN price
       /\ CalcBands => /\ price' = price
                       /\ DOMAIN upper_band' = DOMAIN price
                       /\ DOMAIN lower_band' = DOMAIN price]_vars
C18_Witness ==
    /\ AllCalled
    /\ Len(price) = MaxSeries
    /\ args.bb = MaxWindow
    /\ Len(upper_band) = MaxSeries
    /\ IsNum(sma_20[MaxSeries])

\* a[i] = alpha * x[i] + (1 - alpha) * a[i-1]
Blend(alpha, x, previous) == FAdd(FMul(alpha, x), FMul(FSub(Float(1), alpha), previous))

\* C19: macd[i] = ema_fast[i] - ema_slow[i] at every position, the signal
\* line is the EMA with span `signal` of the macd series, both have the
\* length of the input, and the tab's call uses fast=12, slow=26, signal=9.
C19_Macd ==
    MacdCalled =>
        /\ Len(macd) = Len(price)
        /\ Len(macd_signal) = Len(price)
        /\ \A i \in 1..Len(price) :
            /\ macd[i] = FSub(ema_12[i], ema_26[i])
            /\ macd_signal[i] = IF i = 1 THEN macd[1]
                                ELSE Blend(Num(2, args.signal + 1), macd[i], macd_signal[i - 1])
            /\ app = "Crypto2.py" =>
                /\ macd[i] = FSub(Ewm(ToSeries(price), Num(2, 13), i),
                                  Ewm(ToSeries(price), Num(2, 27), i))
                /\ i > 1 => macd_signal[i] = Blend(Num(2, 10), macd[i], macd_signal[i - 1])
C19_Witness ==
    /\ MacdCalled
    /\ Len(price) >= 3
    /\ macd[3] # Float(0)
    /\ macd_signal[3] # macd[3]

\* the smallest and the largest of the first i prices
RECURSIVE MinSoFar(_)
MinSoFar(i) ==
    IF i = 1 THEN price[1]
    ELSE IF price[i] < MinSoFar(i - 1) THEN price[i] ELSE MinSoFar(i - 1)
RECURSIVE MaxSoFar(_)
MaxSoFar(i) ==
    IF i = 1 THEN price[1]
    ELSE IF price[i] > MaxSoFar(i - 1) THEN price[i] ELSE MaxSoFar(i - 1)
IsEmaOf(ema, window) ==
    \A i \in 1..Len(price) :
        /\ ema[i] = IF i = 1 THEN Float(price[1])
                    ELSE Blend(Num(2, window + 1), Float(price[i]), ema[i - 1])
        /\ FLeq(Float(MinSoFar(i)), ema[i])
        /\ FLeq(ema[i], Float(MaxSoFar(i)))

\* C20: calculate_ema starts at the first price, every later value is
\* a * price[i] + (1 - a) * ema[i-1] with a = 2 / (window + 1), and every
\* value lies between the smallest and the largest price seen so far.
C20_EmaRecurrence ==
    EmaCalled =>
        /\ Len(ema_12) = Len(price) /\ IsEmaOf(ema_12, args.fast)
        /\ Len(ema_26) = Len(price) /\ IsEmaOf(ema_26, args.slow)
C20_Witness ==
    /\ EmaCalled
    /\ Len(price) >= 3
    /\ args.fast = 2
    /\ price[1] # price[2]
    /\ ema_12[3] # Float(price[3])
    /\ ema_12[3] # ema_12[2]

\* C21: whatever the fetches return, the run of each script proceeds to its
\* end and no exception stops it: the live price display of the treasury
\* tracker, the momentum tab and the main content of crypto.py never raise.
C21_RunsReachTheirEnd ==
    /\ InTreasuryApp => tpc # "display_raised"
    /\ app = "Crypto2.py" => m_pc # "raised"
    /\ InCryptoApp => pc # "raised"

(***************************************************************************)
(* The scores: claims C22 and C25.                                         *)
(***************************************************************************)
\* C22: every percent change has an explicit behaviour for a previous value
\* of 0: the change is taken as 0, the score and the 24h change stay finite
\* numbers and no division fault stops the processing of the symbol.
C22_ZeroDenominatorIsZeroChange ==
    /\ app = "Crypto4.py" /\ s_pc \in {"metrics", "done"} =>
          /\ IsNum(momentum_score)
          /\ Len(frame.Close) >= 2 /\ At(frame.Close, 2) = 0 /\ At(frame.Volume, 2) = 0 =>
                momentum_score = Float(0)
    /\ app = "Crypto4.py" /\ s_pc = "done" =>
          /\ IsNum(change_24h)
          /\ Len(frame.Close) >= 2 /\ At(frame.Close, 2) = 0 => change_24h = Float(0)
    /\ app = "Crypto3.py indicators" => s_pc # "invalid"

\* C25: with fewer than 14 historical prices the momentum score of a record
\* is None; otherwise it is 0.5, 0.3 and 0.2 times the percent changes
\* (last - earlier) / earlier * 100 of the last price against the price
\* before it, the 7th from the end and the 30th from the end (the first one
\* of a shorter list).
C25_MomentumScore ==
    app = "Crypto3.py indicators" /\ s_pc = "record" =>
        LET hp == historical_prices
            len == Len(hp)
        IN IF len < 14 THEN momentum_score = NoScore
           ELSE LET a == hp[len]
                    b == hp[len - 1]
                    c == hp[len - 6]
                    d == IF len >= 30 THEN hp[len - 29] ELSE hp[1]
                IN momentum_score =
                       Num(50 * (a - b) * c * d + 30 * (a - c) * b * d + 20 * (a - d) * b * c,
                           b * c * d)
C25_Witness ==
    /\ app = "Crypto3.py indicators"
    /\ s_pc = "record"
    /\ Len(historical_prices) > 30
    /\ At(historical_prices, 30) # historical_prices[1]
    /\ At(historical_prices, 7) # At(historical_prices, 2)
    /\ IsNum(momentum_score)
    /\ momentum_score.n # 0

\* C23: every fetch call returns to its caller, with a body or a failure,
\* even if the provider never answers: a run of crypto.py that has started
\* its main content gets past its fetches, and the loop of get_crypto_data
\* over its symbols comes to its end.
C23_EveryFetchReturns ==
    /\ (InCryptoApp /\ pc = "main") ~> (pc \in {"idle", "raised"})
    /\ (InCMCApp /\ c3pc = "loop") ~> (c3pc = "done")

(***************************************************************************)
(* The cache of crypto.py: claims C24 and C29.                             *)
(***************************************************************************)
\* the earlier calls of fn with these arguments that went to the provider
\* less than ttl seconds ago
Recent(log, key, ttl) == {c \in log : c.key = key /\ now - c.at < ttl}
SelectedKey == <<market_data[1].id, currency, time_period>>

\* C24: a call of get_market_data (ttl 60 s) or get_historical_data (ttl
\* 300 s) with the arguments of an earlier call made less than ttl ago
\* returns that call's result and issues no request; without such a call,
\* the first call after the ttl has run out included, it issues a request.
C24_TtlCache ==
    [][/\ MainContent /\ watchlist # <<>> =>
             LET recent == Recent(fetch_log.get_market_data, <<watchlist, currency>>, 60)
             IN IF recent # {}
                THEN /\ mdCall'.hit
                     /\ mdCall'.gets = <<>>
                     /\ transport' = transport
                     /\ \E c \in recent : market_data' = c.value
                ELSE \/ pc' = "blocked"
                     \/ /\ ~mdCall'.hit
                        /\ mdCall'.gets = <<MarketsRequest(watchlist, currency)>>
                        /\ transport' = After(transport, 1)
       /\ ShowHistory =>
             LET recent == Recent(fetch_log.get_historical_data, SelectedKey, 300)
             IN IF recent # {}
                THEN /\ histCall'.hit
                     /\ histCall'.gets = <<>>
                     /\ transport' = transport
                     /\ \E c \in recent : historical_data' = c.value
                ELSE \/ pc' = "blocked"
                     \/ /\ ~histCall'.hit
                        /\ Len(histCall'.gets) = 1
                        /\ transport' = After(transport, 1)]_vars
\* both caches have answered, and both have let a call through after their ttl
C24_Witness ==
    /\ InCryptoApp
    /\ runs = MaxRuns
    /\ now = 300
    /\ pc = "idle"
    /\ histCall.made /\ ~histCall.hit
    /\ mdCall.made /\ ~mdCall.hit
    /\ \E c \in fetch_log.get_historical_data : c.key = SelectedKey /\ c.at = 0

\* C29: a failure is cached like a success.  After get_market_data returned
\* [] or get_historical_data returned None, a call with the same arguments
\* within the ttl returns that failure value and issues no request, whatever
\* the provider would answer by then.
C29_FailureCached ==
    [][/\ MainContent /\ watchlist # <<>>
          /\ (\E c \in Recent(fetch_log.get_market_data, <<watchlist, currency>>, 60) : c.err) =>
             /\ market_data' = <<>>
             /\ mdCall'.hit /\ mdCall'.err
             /\ mdCall'.gets = <<>>
             /\ transport' = transport
             /\ ErrMarket \in messages'
       /\ ShowHistory
          /\ (\E c \in Recent(fetch_log.get_historical_data, SelectedKey, 300) : c.err) =>
             /\ historical_data' = None
             /\ histCall'.hit /\ histCall'.err
             /\ histCall'.gets = <<>>
             /\ transport' = transport
             /\ ErrHist \in messages']_vars
\* a cached failure was returned while the provider would have answered
C29_Witness ==
    /\ InCryptoApp
    /\ runs = 2
    /\ mdCall.made /\ mdCall.hit /\ mdCall.err
    /\ market_data = <<>>
    /\ Answer(mdCall.faced, 1) = GoodAnswer
    /\ \E c \in fetch_log.get_market_data : c.err /\ c.key = <<watchlist, currency>>

\* C26: in every state reached from the default watchlist by add, remove
\* and bulk import the watchlist holds as many entries as it holds different
\* identifiers, so none twice; and a remove of an identifier takes away its
\* one entry and leaves the watchlist without it.
C26_NoIdTwice ==
    /\ [](InCryptoApp => Cardinality(Range(watchlist)) = Len(watchlist))
    /\ [][\A c \in CoinList :
             RemoveFromWatchlist(c) =>
                 /\ c \notin Range(watchlist')
                 /\ Len(watchlist') = Len(watchlist) - 1]_vars
C26_Witness ==
    /\ InCryptoApp
    /\ runs = 2
    /\ pc = "idle"
    /\ Len(watchlist) = Len(DEFAULT_COINS) - 1
    /\ "solana" \notin Range(watchlist)
    /\ view = "prices_chart"

\* C27: get_crypto_data sends requests for the first max_coins symbols of
\* its input and for no other; when it returns, each of these symbols is in
\* the records or in the invalid-symbol list and never in both, no later
\* symbol is in either, and the records follow the order of the input.
RecordSymbols == [i \in 1..Len(crypto_data) |-> crypto_data[i].Symbol]
C27_FirstMaxCoinsPartitioned ==
    InCMCApp /\ c3pc = "done" =>
        LET first == IF Len(symbols) <= max_coins THEN symbols
                     ELSE SubSeq(symbols, 1, max_coins)
        IN /\ {c3gets[i].symbol : i \in 1..Len(c3gets)} = Range(first)
           /\ Range(RecordSymbols) \cup Range(invalid_symbols) = Range(first)
           /\ Range(RecordSymbols) \cap Range(invalid_symbols) = {}
           /\ Len(RecordSymbols) + Len(invalid_symbols) = Len(first)
           /\ RecordSymbols = FilterSeq(first, Range(RecordSymbols))
C27_Witness ==
    /\ InCMCApp
    /\ c3pc = "done"
    /\ Len(symbols) = 3
    /\ max_coins = 2
    /\ RecordSymbols = <<symbols[2]>>
    /\ invalid_symbols = <<symbols[1]>>

\* C28: in the session of Crypto3.py a run that finds a non-empty
\* crypto_data in the session and was not started by the Update button
\* issues no fetch, whatever the uploaded symbols and the day count are by
\* then, and displays the stored records; a run with valid symbols that
\* finds the stored result empty, or was started by the button, fetches.
C28_FetchOnlyOnUpdate ==
    [][SessionRun =>
          LET valid == f_uploaded.present /\ f_uploaded.symbols # <<>>
          IN /\ session_crypto_data # <<>> /\ ~update_button =>
                   /\ f_fetches' = f_fetches
                   /\ session_crypto_data' = session_crypto_data
                   /\ valid => f_shown' = session_crypto_data
             /\ valid /\ (session_crypto_data = <<>> \/ update_button) =>
                   /\ f_fetches' = f_fetches + 1
                   /\ f_shown' = session_crypto_data']_vars
\* the run displays records fetched for another list and another day count
C28_Witness ==
    /\ app = "Crypto3.py session"
    /\ f_pc = "idle"
    /\ f_fetches = 1
    /\ f_uploaded.symbols = <<"BTC">>
    /\ f_days = 7
    /\ f_shown = <<[Symbol |-> "ETH", days |-> 30]>>

\* C30: whatever the fetched token prices are, a failed fetch included, and
\* whatever the manual HYPE price is, a run of the treasury tracker that
\* has ended has given every company its implied premium: Market Cap /
\* Holdings when Holdings is not zero, None otherwise.
C30_PremiumIndependentOfPrices ==
    InTreasuryApp /\ tpc \in {"done", "display_raised", "fetch_raised"} =>
        /\ Len(premiums) = Len(data)
        /\ \A i \in 1..Len(premiums) :
              premiums[i].premium = Premium(data[i].MarketCap, data[i].Holdings)

====
